---- MODULE Spec2Model ----
(***************************************************************************)
(* A model of the reconciliation engines of productboard_tools: the pager, *)
(* the classifiers (duplicate grouping, field copy, company import) and    *)
(* the executor loops of the six modules (field copy, note deletion, bulk  *)
(* update, company import, entity import, note import).                    *)
(*                                                                         *)
(* Strings of the program are sequences of one-character strings, so that  *)
(* trim, toLowerCase, concatenation and split are computed, not assumed.   *)
(***************************************************************************)
EXTENDS Naturals, Integers, Sequences, FiniteSets, TLC

\* ------------------------------------------------------------------------
\* Bounds of the model
\* ------------------------------------------------------------------------
\* the longest remote note listing
MaxNotes == 3
\* the longest remote feature listing
MaxFeatures == 2
\* the longest remote company listing
MaxCompanies == 2
\* the most rows of a CSV file
MaxRows == 2
\* the longest list an executor is started on
MaxItems == 10
\* the records one page of a listing holds
PageSize == 1
\* the sink and source calls of one run that fail or throw
MaxFaults == 2
\* the calls of handleStartUpdate in one session of the bulk update
MaxRuns == 2

VARIABLES
  module,          \* the module (React component) the session runs
  pc,              \* where the module's handler stands
  listing,         \* the records the remote listing holds, in its order
  cursor,          \* the pager's next page (0: the first request)
  collected,       \* allNotes / allFeatures / allCompanies of the pager
  pageFailed,      \* the page request that failed (0: none)
  notes,           \* duplicate notes: the notes state
  duplicateGroups, \* duplicate notes: the plan
  items,           \* the executor's list (notesToDelete, itemsToUpdate, ...)
  i,               \* the executor's loop index: the items done
  results,         \* the executor's local results array
  progress,        \* the progress state {current, total}
  published,       \* the results state the report reads
  sinkLog,         \* every call made to the record sink, with its outcome
  faults,          \* the calls of this run that failed or threw
  remote,          \* the remote field values: entity -> field -> value (0: none)
  validMappings,   \* field copy: the source -> target rules
  onlyEmptyTargets,\* field copy: the preserve flag
  allItems,        \* field copy: the items classified so far
  previewItems,    \* field copy: the plan
  csvRows,         \* CSV modules: csvData.rows
  companiesToImport, \* company import: the plan
  companyId,       \* company import: the company of the current item
  fieldErrors,     \* company import: the field errors of the current item
  fieldIdx,        \* company import: the custom fields of the item done
  preserveExistingValues, \* bulk update: the preserve flag
  failedRows,      \* note import: the rows of the failure report
  pauses,          \* the pauses of the executor's loop, in their order
  runs,            \* bulk update: the calls of handleStartUpdate and their locals
  batchReads,      \* field copy: the batch reads of the rule in progress
  lastPlan,        \* the plan of the last load before this one that read everything
  csvCell,         \* note import: a value, its escaped text and the parsed line
  migrationLogs,   \* the migrationLogs table of the backend
  session          \* the token, the connection and the inactivity timers

vars == <<module, pc, listing, cursor, collected, pageFailed, notes,
          duplicateGroups, items, i, results, progress, published,
          sinkLog, faults, remote, validMappings, onlyEmptyTargets,
          allItems, previewItems, csvRows, companiesToImport, companyId,
          fieldErrors, fieldIdx, preserveExistingValues, failedRows,
          pauses, runs, batchReads, lastPlan, csvCell,
          migrationLogs, session>>

\* the state of the other modules, which a module's handlers leave alone
dedupeVars == <<notes, duplicateGroups>>
copyVars == <<validMappings, onlyEmptyTargets, allItems, previewItems>>
csvVars == <<csvRows, companiesToImport, companyId, fieldErrors, fieldIdx,
             preserveExistingValues, failedRows>>

\* ------------------------------------------------------------------------
\* Strings
\* ------------------------------------------------------------------------
IsSpace(c) == c \in {" ", "\n"}

RECURSIVE TrimStart(_)
TrimStart(s) ==
  IF s = <<>> THEN <<>>
  ELSE IF IsSpace(Head(s)) THEN TrimStart(Tail(s)) ELSE s

RECURSIVE TrimEnd(_)
TrimEnd(s) ==
  IF s = <<>> THEN <<>>
  ELSE IF IsSpace(s[Len(s)]) THEN TrimEnd(SubSeq(s, 1, Len(s) - 1)) ELSE s

\* String.prototype.trim
Trim(s) == TrimEnd(TrimStart(s))

\* the separator of the duplicate keys, '|||'
Sep == <<"|", "|", "|">>

StartsWith(s, p) == Len(s) >= Len(p) /\ SubSeq(s, 1, Len(p)) = p

\* String.prototype.split(sep): the parts of s between the leftmost
\* occurrences of sep, scanning left to right
RECURSIVE SplitFrom(_, _, _)
SplitFrom(s, sep, cur) ==
  IF s = <<>> THEN <<cur>>
  ELSE IF StartsWith(s, sep)
       THEN <<cur>> \o SplitFrom(SubSeq(s, Len(sep) + 1, Len(s)), sep, <<>>)
       ELSE SplitFrom(Tail(s), sep, Append(cur, Head(s)))

Split(s, sep) == SplitFrom(s, sep, <<>>)

\* ------------------------------------------------------------------------
\* Duplicate notes: findDuplicateGroups
\* ------------------------------------------------------------------------
\* A note is [id, content, title, company, createdAt]; company = <<>> is
\* a note without company, createdAt = 0 a note without createdAt ('' sorts
\* before every timestamp).

\* Map.get(key) || [] followed by push and Map.set: the entry keeps its
\* place in the map's insertion order
MapPush(map, key, ns) ==
  IF \E j \in 1..Len(map) : map[j].key = key
  THEN [j \in 1..Len(map) |->
          IF map[j].key = key THEN [map[j] EXCEPT !.notes = @ \o ns] ELSE map[j]]
  ELSE Append(map, [key |-> key, notes |-> ns])

KeyWithCompany(n) == Trim(n.content) \o Sep \o Trim(n.title) \o Sep \o n.company
KeyWithoutCompany(n) == Trim(n.content) \o Sep \o Trim(n.title)

\* the first loop: notes grouped by key, with and without company
RECURSIVE GroupNotes(_, _, _)
GroupNotes(ns, withC, withoutC) ==
  IF ns = <<>> THEN [withCompany |-> withC, withoutCompany |-> withoutC]
  ELSE LET n == Head(ns) IN
       IF n.company # <<>>
       THEN GroupNotes(Tail(ns), MapPush(withC, KeyWithCompany(n), <<n>>), withoutC)
       ELSE GroupNotes(Tail(ns), withC, MapPush(withoutC, KeyWithoutCompany(n), <<n>>))

\* k.split('|||') destructured into [c, t]
KeyContentTitle(k) == LET p == Split(k, Sep) IN <<p[1], p[2]>>

\* the second loop: each group without company joins every group whose key
\* splits to the same content and title, or becomes a group of its own
RECURSIVE MergeGroups(_, _)
MergeGroups(withoutC, dmap) ==
  IF withoutC = <<>> THEN dmap
  ELSE LET g  == Head(withoutC)
           ct == KeyContentTitle(g.key)
           matching == {j \in 1..Len(dmap) : KeyContentTitle(dmap[j].key) = ct}
       IN IF matching # {}
          THEN MergeGroups(Tail(withoutC),
                 [j \in 1..Len(dmap) |->
                    IF j \in matching
                    THEN [dmap[j] EXCEPT !.notes = @ \o g.notes] ELSE dmap[j]])
          ELSE MergeGroups(Tail(withoutC),
                 MapPush(dmap, ct[1] \o Sep \o ct[2] \o Sep \o <<"null">>, g.notes))

\* Array.prototype.sort with (a, b) => a.createdAt.localeCompare(b.createdAt):
\* a stable insertion by createdAt
RECURSIVE InsertByCreatedAt(_, _)
InsertByCreatedAt(sorted, n) ==
  IF sorted = <<>> THEN <<n>>
  ELSE IF Head(sorted).createdAt <= n.createdAt
       THEN <<Head(sorted)>> \o InsertByCreatedAt(Tail(sorted), n)
       ELSE <<n>> \o sorted

RECURSIVE SortByCreatedAt(_)
SortByCreatedAt(ns) ==
  IF ns = <<>> THEN <<>>
  ELSE InsertByCreatedAt(SortByCreatedAt(SubSeq(ns, 1, Len(ns) - 1)), ns[Len(ns)])

HasCompany(n) == n.company # <<>>

\* a keep rule that ignores the companies
KeepNoteOldest(sorted) == sorted[1]

\* keep the oldest with company, or the oldest if none has a company
KeepNote(sorted) ==
  LET withCompany == SelectSeq(sorted, HasCompany)
  IN IF withCompany # <<>> THEN withCompany[1] ELSE sorted[1]

\* a delete rule that spares the oldest note, whichever is kept
DeleteNotesButOldest(sorted, keepNote) == Tail(sorted)

\* deleteNotes: the notes of the group with another id than the kept one
DeleteNotes(sorted, keepNote) ==
  LET NotKept(n) == n.id # keepNote.id IN SelectSeq(sorted, NotKept)

\* the last loop: the groups with two notes and two distinct ids
RECURSIVE BuildGroups(_)
BuildGroups(dmap) ==
  IF dmap = <<>> THEN <<>>
  ELSE LET e == Head(dmap)
           uniqueIds == {e.notes[j].id : j \in 1..Len(e.notes)}
       IN IF Len(e.notes) > 1 /\ Cardinality(uniqueIds) > 1
          THEN LET sorted == SortByCreatedAt(e.notes)
                   keep == KeepNote(sorted)
               IN <<[key |-> e.key, notes |-> sorted, keepNote |-> keep,
                     deleteNotes |-> DeleteNotes(sorted, keep)]>>
                  \o BuildGroups(Tail(dmap))
          ELSE BuildGroups(Tail(dmap))

findDuplicateGroups(ns) ==
  LET g == GroupNotes(ns, <<>>, <<>>)
  IN BuildGroups(MergeGroups(g.withoutCompany, g.withCompany))

\* ------------------------------------------------------------------------
\* The remote calls and their outcomes
\* ------------------------------------------------------------------------
\* the message of a non-success response (sanitizeApiError)
ErrMsg == "Productboard server error"
\* String(error) of a rejected call
ThrowMsg == "Error: Network error"

\* a call returns success, returns { success: false, error }, or rejects
CallOutcomes == {"ok", "fail", "throw"}
\* the failed calls explored in one run: none on the lists longer than
\* MaxItems
FaultBudget == IF Len(items) <= MaxItems THEN MaxFaults ELSE 0
MayFault(o) == o = "ok" \/ faults < FaultBudget
Fault(o) == IF o = "ok" THEN faults ELSE faults + 1

\* ------------------------------------------------------------------------
\* The pause at the end of a turn of an executor's loop
\* ------------------------------------------------------------------------
\* if ((i + 1) % 10 === 0 && i + 1 < length) await setTimeout(200)
PauseEvery == 10
PauseMs == 200
\* the note deletion: (i + 1) % 50 and setTimeout(1000)
DeletePauseEvery == 50
DeletePauseMs == 1000

\* the pauses after the turn that ends with done items gone through
Pause(every, ms, done, total) ==
  IF done % every = 0 /\ done < total
  THEN Append(pauses, [after |-> done, ms |-> ms])
  ELSE pauses

\* ------------------------------------------------------------------------
\* The pager: do { list(cursor); if (!success) break; push; } while (next)
\* ------------------------------------------------------------------------
\* the page a request with cursor c returns (c = 0: the first page)
PageOf(l, c) ==
  SubSeq(l, c * PageSize + 1, IF (c + 1) * PageSize < Len(l)
                              THEN (c + 1) * PageSize ELSE Len(l))
\* nextCursor / nextPage / links.next: null on the last page
NextCursor(l, c) == IF (c + 1) * PageSize < Len(l) THEN c + 1 ELSE 0

\* what a pager hands to its caller after a walk that gathered the records
\* and ended with or without a failed page: the array alone
PagerReturn(records, failed) == records

\* ------------------------------------------------------------------------
\* Duplicate notes: handleLoadNotes and handleDeleteDuplicates
\* ------------------------------------------------------------------------
Note(id, content, title, company, createdAt) ==
  [id |-> id, content |-> content, title |-> title, company |-> company,
   createdAt |-> createdAt]

\* the notes a remote listing is drawn from (a note listed twice is a
\* pagination overlap)
NotePool ==
  { Note(1, <<"x">>, <<"t">>, <<"c1">>, 2),
    Note(2, <<"x">>, <<"t">>, <<"c1">>, 3),
    Note(3, <<"x">>, <<"t">>, <<>>, 1),
    Note(4, <<" ", "x">>, <<"t", " ">>, <<"c2">>, 1),
    Note(5, <<"x", "|", "|", "|", "t">>, <<>>, <<>>, 2),
    Note(6, <<"y">>, <<"t">>, <<>>, 2) }

SeqsUpTo(S, n) == UNION {[1..k -> S] : k \in 0..n}

\* the load listed every page and, in the field copy, read every value
WholeLoad == pageFailed = 0 /\ (module = "copy" => faults = 0)

\* a list of notes that outlives the load it was filled by
allNotesOfLoads == collected

\* const allNotes: Note[] = [] : every load starts its own list
allNotesAtStart == <<>>

\* handleLoadNotes up to its first request
LoadNotesStart ==
  /\ module = "dedupe" /\ pc \in {"idle", "planned"}
  /\ pc' = "listNotes"
  /\ cursor' = 0 /\ collected' = allNotesAtStart /\ pageFailed' = 0
  /\ duplicateGroups' = <<>> /\ published' = <<>>
  /\ lastPlan' = IF pc = "planned" /\ WholeLoad THEN <<duplicateGroups>> ELSE lastPlan
  /\ UNCHANGED <<remote, copyVars, csvVars>>
  /\ UNCHANGED <<module, session, migrationLogs, csvCell, batchReads, runs,
                 pauses, listing, notes, items, i, results, progress,
                 sinkLog, faults>>

\* one listNotes request of the pager loop, then (after the last page or a
\* failed one) setNotes
ListNotesPage ==
  /\ module = "dedupe" /\ pc = "listNotes"
  /\ \E o \in CallOutcomes :
       /\ MayFault(o)
       /\ faults' = Fault(o)
       /\ CASE o = "ok" ->
                 /\ collected' = collected \o PageOf(listing, cursor)
                 /\ cursor' = NextCursor(listing, cursor)
                 /\ IF NextCursor(listing, cursor) # 0
                    THEN pc' = "listNotes" /\ notes' = notes
                    ELSE pc' = "listCompanies" /\ notes' = collected'
                 /\ UNCHANGED pageFailed
            [] o = "fail" ->
                 \* if (!result.success) break
                 /\ pageFailed' = cursor + 1
                 /\ pc' = "listCompanies" /\ notes' = collected
                 /\ UNCHANGED <<collected, cursor>>
            [] o = "throw" ->
                 \* catch: console.error; the notes state is not set
                 /\ pageFailed' = cursor + 1
                 /\ pc' = "idle"
                 /\ UNCHANGED <<collected, cursor, notes>>
  /\ UNCHANGED <<remote, copyVars, csvVars>>
  /\ UNCHANGED <<module, session, migrationLogs, csvCell, lastPlan,
                 batchReads, runs, pauses, listing, duplicateGroups, items, i,
                 results,
                 progress, published, sinkLog>>

\* the company listing (it only names the companies of the report), then
\* findDuplicateGroups(allNotes)
LoadCompaniesAndGroup ==
  /\ module = "dedupe" /\ pc = "listCompanies"
  /\ \E o \in CallOutcomes :
       /\ MayFault(o)
       /\ faults' = Fault(o)
       /\ IF o = "throw"
          THEN pc' = "idle" /\ UNCHANGED duplicateGroups
          ELSE /\ duplicateGroups' = findDuplicateGroups(collected)
               /\ pc' = "planned"
  /\ UNCHANGED <<remote, copyVars, csvVars>>
  /\ UNCHANGED <<module, session, migrationLogs, csvCell, lastPlan,
                 batchReads, runs, pauses, listing, cursor, collected,
                 pageFailed, notes,
                 items, i, results, progress, published, sinkLog>>

RECURSIVE FlatDeleteNotes(_)
FlatDeleteNotes(groups) ==
  IF groups = <<>> THEN <<>>
  ELSE Head(groups).deleteNotes \o FlatDeleteNotes(Tail(groups))

\* handleDeleteDuplicates up to its loop
DeleteStart ==
  /\ module = "dedupe" /\ pc = "planned" /\ duplicateGroups # <<>>
  /\ items' = FlatDeleteNotes(duplicateGroups)
  /\ results' = <<>> /\ published' = <<>> /\ i' = 0
  /\ progress' = [current |-> 0, total |-> Len(items')]
  /\ faults' = 0
  /\ pc' = "exec"
  /\ UNCHANGED <<remote, copyVars, csvVars>>
  /\ UNCHANGED <<module, session, migrationLogs, csvCell, lastPlan,
                 batchReads, runs, pauses, listing, cursor, collected,
                 pageFailed, notes,
                 duplicateGroups, sinkLog>>

DeletionResult(note, o) ==
  [item |-> i + 1, noteId |-> note.id, success |-> (o = "ok"),
   error |-> IF o = "ok" THEN "" ELSE IF o = "fail" THEN ErrMsg ELSE ThrowMsg]

\* one turn of the loop: deleteNoteAction in try/catch, one result pushed
DeleteNoteStep ==
  /\ module = "dedupe" /\ pc = "exec" /\ i < Len(items)
  /\ \E o \in CallOutcomes :
       /\ MayFault(o)
       /\ faults' = Fault(o)
       /\ sinkLog' = Append(sinkLog, [op |-> "deleteNote", item |-> i + 1,
                                      target |-> items[i + 1].id,
                                      field |-> 0, value |-> 0, outcome |-> o,
                                      held |-> FALSE])
       /\ results' = Append(results, DeletionResult(items[i + 1], o))
  /\ progress' = [current |-> Len(results'), total |-> Len(items)]
  /\ pauses' = Pause(DeletePauseEvery, DeletePauseMs, i + 1, Len(items))
  /\ i' = i + 1
  /\ UNCHANGED <<remote, copyVars, csvVars>>
  /\ UNCHANGED <<module, session, migrationLogs, csvCell, lastPlan,
                 batchReads, runs, pc, listing, cursor, collected, pageFailed,
                 notes,
                 duplicateGroups, items, published>>

\* after the loop: setDeletionResults(results)
DeleteFinish ==
  /\ module = "dedupe" /\ pc = "exec" /\ i = Len(items)
  /\ published' = results
  /\ pc' = "done"
  /\ UNCHANGED <<remote, copyVars, csvVars>>
  /\ UNCHANGED <<module, session, migrationLogs, csvCell, lastPlan,
                 batchReads, runs, pauses, listing, cursor, collected,
                 pageFailed, notes,
                 duplicateGroups, items, i, results, progress, sinkLog, faults>>

\* ------------------------------------------------------------------------
\* Field copy: handleLoadPreview and handleExecuteMigration
\* ------------------------------------------------------------------------
Mapping(sf, tf) == [sourceFieldId |-> sf, targetFieldId |-> tf]

\* the rules a user can set: the fields of different rules differ (the
\* field selects disable the fields other rules use)
MappingChoices == { <<Mapping(1, 2)>>, <<Mapping(1, 2), Mapping(3, 4)>> }
SourceFields == {1, 3}
TargetFields == {2, 4}
FieldsOf(ms) == UNION {{ms[j].sourceFieldId, ms[j].targetFieldId} : j \in 1..Len(ms)}

\* what a feature may hold in the source and target field of a rule: no
\* value (0), or a value
FeatureShapes == {<<0, 0>>, <<7, 0>>, <<0, 9>>, <<7, 9>>}

\* the remote states of n features under the rules ms: a feature holds one
\* shape in the fields of every rule, and nothing in the other fields
RemoteChoices(n, ms) ==
  [1..n -> {r \in [1..4 -> {0, 7, 9}] :
              \E sh \in FeatureShapes : \A f \in 1..4 :
                 r[f] = IF f \notin FieldsOf(ms) THEN 0
                        ELSE IF f \in SourceFields THEN sh[1] ELSE sh[2]}]

\* what one read of getBatchCustomFieldValues stores for a feature: the
\* value, or { value: null, hasValue: false } for a 404, an error response
\* or a thrown fetch
FieldRead(rem, featureId, fieldId, failed) ==
  IF failed \/ rem[featureId][fieldId] = 0
  THEN [value |-> 0, hasValue |-> FALSE]
  ELSE [value |-> rem[featureId][fieldId], hasValue |-> TRUE]

\* a classifier that tests the target before the source
PreviewActionTargetFirst(sourceData, targetData, flag) ==
  IF flag /\ targetData.hasValue THEN "skipped_has_value"
  ELSE IF ~sourceData.hasValue THEN "skipped_source_empty"
  ELSE "will_update"

\* the decision of handleLoadPreview
PreviewAction(sourceData, targetData, flag) ==
  IF ~sourceData.hasValue THEN "skipped_source_empty"
  ELSE IF flag /\ targetData.hasValue THEN "skipped_has_value"
  ELSE "will_update"

PreviewItem(featureId, mapping, sourceData, targetData, flag) ==
  [featureId |-> featureId,
   sourceFieldId |-> mapping.sourceFieldId,
   targetFieldId |-> mapping.targetFieldId,
   sourceValue |-> sourceData.value,
   targetValue |-> targetData.value,
   action |-> PreviewAction(sourceData, targetData, flag)]

\* the inner loop: one item per feature, in the order of allFeatures
ClassifyMapping(features, mapping, rem, failedReads, flag) ==
  [j \in 1..Len(features) |->
     PreviewItem(features[j], mapping,
                 FieldRead(rem, features[j], mapping.sourceFieldId,
                           <<features[j], mapping.sourceFieldId>> \in failedReads),
                 FieldRead(rem, features[j], mapping.targetFieldId,
                           <<features[j], mapping.targetFieldId>> \in failedReads),
                 flag)]

\* handleLoadPreview up to the first request of loadAllFeatures
LoadPreviewStart ==
  /\ module = "copy" /\ pc \in {"idle", "planned"}
  /\ validMappings # <<>>
  /\ previewItems' = <<>> /\ allItems' = <<>>
  /\ cursor' = 0 /\ collected' = <<>> /\ pageFailed' = 0
  /\ pc' = "listFeatures"
  /\ lastPlan' = IF pc = "planned" /\ WholeLoad THEN <<previewItems>> ELSE lastPlan
  /\ UNCHANGED <<module, session, migrationLogs, csvCell, batchReads, runs,
                 pauses, listing, items, i, results, progress, published,
                 sinkLog, faults, remote, validMappings, onlyEmptyTargets,
                 dedupeVars, csvVars>>

\* one listFeatures request of loadAllFeatures; after the last page or a
\* failed one handleLoadPreview goes on with what was gathered, and returns
\* if that is nothing
ListFeaturesPage ==
  /\ module = "copy" /\ pc = "listFeatures"
  /\ \E o \in CallOutcomes :
       /\ MayFault(o)
       /\ faults' = Fault(o)
       /\ CASE o = "ok" ->
                 /\ collected' = collected \o PageOf(listing, cursor)
                 /\ cursor' = NextCursor(listing, cursor)
                 /\ pc' = IF NextCursor(listing, cursor) # 0 THEN "listFeatures"
                          ELSE IF collected' = <<>> THEN "idle" ELSE "readValues"
                 /\ UNCHANGED pageFailed
            [] o = "fail" ->
                 /\ pageFailed' = cursor + 1
                 /\ pc' = IF collected = <<>> THEN "idle" ELSE "readValues"
                 /\ UNCHANGED <<collected, cursor>>
            [] o = "throw" ->
                 \* caught by handleLoadPreview: console.error
                 /\ pageFailed' = cursor + 1
                 /\ pc' = "idle"
                 /\ UNCHANGED <<collected, cursor>>
  /\ UNCHANGED <<module, session, migrationLogs, csvCell, lastPlan,
                 batchReads, runs, pauses, listing, items, i, results,
                 progress, published,
                 sinkLog, remote, copyVars, dedupeVars, csvVars>>

\* the rule the mapping loop stands at
MappingIndex == Len(allItems) \div Len(collected) + 1

\* one turn of the mapping loop: the two batch reads (each read of a field
\* may fail and is then stored as no value), the items of the rule, and
\* after the last rule setPreviewItems(allItems)
ReadAndClassify ==
  /\ module = "copy" /\ pc = "readValues"
  /\ LET mapping == validMappings[MappingIndex]
         reads == {<<collected[j], f>> :
                     j \in 1..Len(collected),
                     f \in {mapping.sourceFieldId, mapping.targetFieldId}}
     IN \/ \E failedReads \in SUBSET reads :
             /\ faults + Cardinality(failedReads) <= FaultBudget
             /\ faults' = faults + Cardinality(failedReads)
             /\ allItems' = allItems \o ClassifyMapping(collected, mapping, remote,
                                                       failedReads, onlyEmptyTargets)
             /\ IF MappingIndex = Len(validMappings)
                THEN previewItems' = allItems' /\ pc' = "planned"
                ELSE previewItems' = previewItems /\ pc' = "readValues"
        \/ \* the action call itself rejects: caught, console.error
           /\ faults < FaultBudget
           /\ faults' = faults + 1
           /\ pc' = "idle"
           /\ UNCHANGED <<allItems, previewItems>>
  /\ UNCHANGED <<module, session, migrationLogs, csvCell, lastPlan,
                 batchReads, runs, pauses, listing, cursor, collected,
                 pageFailed, items, i,
                 results, progress, published, sinkLog, remote, validMappings,
                 onlyEmptyTargets, dedupeVars, csvVars>>

\* getBatchCustomFieldValues: const batchSize = 10
BatchSize == 10

\* the two getBatchCustomFieldValues calls of a rule, started together by
\* Promise.all: each stands at the feature i of its loop with pending
\* requests of its batch not yet answered
StartBatchReads ==
  /\ module = "copy" /\ pc = "readValues"
  /\ LET mapping == validMappings[MappingIndex]
     IN batchReads' = << [customFieldId |-> mapping.sourceFieldId, i |-> 0, pending |-> 0],
                    [customFieldId |-> mapping.targetFieldId, i |-> 0, pending |-> 0] >>
  /\ pc' = "reading"
  /\ UNCHANGED <<module, session, migrationLogs, csvCell, lastPlan, runs,
                 pauses, listing, cursor, collected, pageFailed,
                 items, i, results, progress, published, sinkLog, faults,
                 remote, copyVars, dedupeVars, csvVars>>

\* a call sends the requests of its next batch, all at once (batch.map),
\* when the batch before is answered and the delay is over
IssueBatch ==
  /\ module = "copy" /\ pc = "reading"
  /\ \E l \in 1..Len(batchReads) :
       /\ batchReads[l].pending = 0 /\ batchReads[l].i < Len(collected)
       /\ batchReads' = [batchReads EXCEPT ![l] =
            [@ EXCEPT !.pending =
               IF Len(collected) - batchReads[l].i < BatchSize
               THEN Len(collected) - batchReads[l].i ELSE BatchSize]]
  /\ UNCHANGED <<module, session, migrationLogs, csvCell, lastPlan, runs,
                 pauses, pc, listing, cursor, collected,
                 pageFailed, items, i, results, progress, published, sinkLog,
                 faults, remote, copyVars, dedupeVars, csvVars>>

\* a request of a batch is answered (or fails: no value); Promise.all of
\* the batch is settled with its last request and the loop steps by
\* batchSize
ReadAnswered ==
  /\ module = "copy" /\ pc = "reading"
  /\ \E l \in 1..Len(batchReads) :
       /\ batchReads[l].pending > 0
       /\ batchReads' = [batchReads EXCEPT ![l] =
            [@ EXCEPT !.pending = @ - 1,
                      !.i = IF batchReads[l].pending = 1
                            THEN batchReads[l].i + BatchSize ELSE @]]
  /\ UNCHANGED <<module, session, migrationLogs, csvCell, lastPlan, runs,
                 pauses, pc, listing, cursor, collected,
                 pageFailed, items, i, results, progress, published, sinkLog,
                 faults, remote, copyVars, dedupeVars, csvVars>>

\* both calls have returned: the items of the rule, and after the last
\* rule setPreviewItems(allItems)
ClassifyRead ==
  /\ module = "copy" /\ pc = "reading"
  /\ \A l \in 1..Len(batchReads) :
       batchReads[l].pending = 0 /\ batchReads[l].i >= Len(collected)
  /\ allItems' = allItems \o ClassifyMapping(collected, validMappings[MappingIndex],
                                            remote, {}, onlyEmptyTargets)
  /\ IF MappingIndex = Len(validMappings)
     THEN previewItems' = allItems' /\ pc' = "planned"
     ELSE previewItems' = previewItems /\ pc' = "readValues"
  /\ batchReads' = <<>>
  /\ UNCHANGED <<module, session, migrationLogs, csvCell, lastPlan, runs,
                 pauses, listing, cursor, collected, pageFailed,
                 items, i, results, progress, published, sinkLog, faults,
                 remote, validMappings, onlyEmptyTargets, dedupeVars, csvVars>>

\* a selection that also sends the items skipped for a held target
WillUpdateOrHeld(item) == item.action \in {"will_update", "skipped_has_value"}

\* the filter of handleExecuteMigration
WillUpdate(item) == item.action = "will_update"

\* the items the preview table of the field copy shows:
\* previewItems.slice(0, 100)
DisplayLimit == 100
ShownItems ==
  SubSeq(previewItems, 1,
         IF Len(previewItems) < DisplayLimit THEN Len(previewItems)
         ELSE DisplayLimit)

\* handleExecuteMigration up to its loop; neither this handler nor any other
\* of the client calls a mutation of the migrationLogs table
ExecuteStart ==
  /\ module = "copy" /\ pc = "planned" /\ previewItems # <<>>
  /\ items' = SelectSeq(previewItems, WillUpdate)
  /\ results' = <<>> /\ published' = <<>> /\ i' = 0
  /\ progress' = [current |-> 0, total |-> Len(items')]
  /\ faults' = 0
  /\ pc' = "exec"
  /\ UNCHANGED <<module, session, migrationLogs, csvCell, lastPlan,
                 batchReads, runs, pauses, listing, cursor, collected,
                 pageFailed, sinkLog,
                 remote, copyVars, dedupeVars, csvVars>>

MigrationResult(item, o) ==
  [item |-> i + 1, featureId |-> item.featureId,
   targetFieldId |-> item.targetFieldId, success |-> (o = "ok"),
   action |-> IF o = "throw" THEN "failed" ELSE "updated",
   newValue |-> item.sourceValue,
   error |-> IF o = "ok" THEN "" ELSE IF o = "fail" THEN ErrMsg ELSE ThrowMsg]

\* a loop that stops at the first call that does not succeed
NextIndexAborting(idx, o, n) == IF o = "ok" THEN idx + 1 ELSE n

\* the step of the for loop: i++ whatever the call answered
NextIndex(idx, o, n) == idx + 1

\* the remote state after a PUT of value v that the API accepted
PutValue(rem, featureId, fieldId, v) ==
  [rem EXCEPT ![featureId] = [@ EXCEPT ![fieldId] = v]]

\* one turn of the loop: setCustomFieldValue in try/catch, one result pushed
SetValueStep ==
  /\ module = "copy" /\ pc = "exec" /\ i < Len(items)
  /\ LET item == items[i + 1] IN
     \E o \in CallOutcomes :
       /\ MayFault(o)
       /\ faults' = Fault(o)
       /\ sinkLog' = Append(sinkLog,
            [op |-> "setCustomFieldValue", item |-> i + 1,
             target |-> item.featureId, field |-> item.targetFieldId,
             value |-> item.sourceValue, outcome |-> o,
             held |-> remote[item.featureId][item.targetFieldId] # 0])
       /\ remote' = IF o = "ok"
                    THEN PutValue(remote, item.featureId, item.targetFieldId,
                                  item.sourceValue)
                    ELSE remote
       /\ results' = Append(results, MigrationResult(item, o))
       /\ i' = NextIndex(i, o, Len(items))
  /\ progress' = [current |-> Len(results'), total |-> Len(items)]
  /\ UNCHANGED <<module, session, migrationLogs, csvCell, lastPlan,
                 batchReads, runs, pauses, pc, listing, cursor, collected,
                 pageFailed, items,
                 published, copyVars, dedupeVars, csvVars>>

\* after the loop: setExecutionResults(results)
ExecuteFinish ==
  /\ module = "copy" /\ pc = "exec" /\ i = Len(items)
  /\ published' = results
  /\ pc' = "done"
  /\ UNCHANGED <<module, session, migrationLogs, csvCell, lastPlan,
                 batchReads, runs, pauses, listing, cursor, collected,
                 pageFailed, items, i,
                 results, progress, sinkLog, faults, remote, copyVars,
                 dedupeVars, csvVars>>

\* ------------------------------------------------------------------------
\* Company import: handlePreview and handleStartImport
\* ------------------------------------------------------------------------
UpperCase == <<"A", "B", "C", "D", "E", "F", "G", "H", "I", "J", "K", "L", "M",
               "N", "O", "P", "Q", "R", "S", "T", "U", "V", "W", "X", "Y", "Z">>
LowerCase == <<"a", "b", "c", "d", "e", "f", "g", "h", "i", "j", "k", "l", "m",
               "n", "o", "p", "q", "r", "s", "t", "u", "v", "w", "x", "y", "z">>

LowerChar(c) ==
  IF \E k \in 1..Len(UpperCase) : UpperCase[k] = c
  THEN LowerCase[CHOOSE k \in 1..Len(UpperCase) : UpperCase[k] = c]
  ELSE c

\* String.prototype.toLowerCase
ToLowerCase(s) == [k \in 1..Len(s) |-> LowerChar(s[k])]

Digits == <<"0", "1", "2", "3", "4", "5", "6", "7", "8", "9">>
IsDigit(c) == \E k \in 1..Len(Digits) : Digits[k] = c
DigitValue(c) == (CHOOSE k \in 1..Len(Digits) : Digits[k] = c) - 1

\* the value of a not-a-number
NaN == -1

RECURSIVE ParseDigits(_, _)
ParseDigits(s, acc) ==
  IF s = <<>> \/ ~IsDigit(Head(s)) THEN acc
  ELSE ParseDigits(Tail(s), acc * 10 + DigitValue(Head(s)))

\* parseFloat on unsigned whole numbers: leading white space is skipped, the
\* longest prefix of digits is read, and no digit at all is NaN
ParseFloat(s) ==
  LET t == TrimStart(s)
  IN IF t = <<>> \/ ~IsDigit(Head(t)) THEN NaN ELSE ParseDigits(t, 0)

\* a company of the remote listing; domain <<>> is a company without domain
Company(id, name, domain) == [id |-> id, name |-> name, domain |-> domain]
NoCompany == Company(0, <<>>, <<>>)

\* a row of the CSV: the name and domain columns and the two mapped custom
\* field columns (field 1 is a text field, field 2 a number field)
CsvRow(name, domain, f1, f2) == [name |-> name, domain |-> domain, f1 |-> f1, f2 |-> f2]
CompanyFieldType(fieldId) == IF fieldId = 2 THEN "number" ELSE "text"

\* the lookup key of a company and of a row
CompanyKeyCaseSensitive(name, domain) == name \o <<"|">> \o domain
CompanyKey(name, domain) == ToLowerCase(name) \o <<"|">> \o ToLowerCase(domain)

\* Map.set: a key that is present keeps its place and takes the new value
MapSet(map, key, v) ==
  IF \E j \in 1..Len(map) : map[j].key = key
  THEN [j \in 1..Len(map) |-> IF map[j].key = key THEN [key |-> key, value |-> v]
                              ELSE map[j]]
  ELSE Append(map, [key |-> key, value |-> v])

\* Map.get: undefined (NoCompany) for a key that is absent
MapGet(map, key) ==
  IF \E j \in 1..Len(map) : map[j].key = key
  THEN map[CHOOSE j \in 1..Len(map) : map[j].key = key].value
  ELSE NoCompany

\* companyLookup of handlePreview
RECURSIVE BuildLookup(_, _)
BuildLookup(companies, map) ==
  IF companies = <<>> THEN map
  ELSE BuildLookup(Tail(companies),
                   MapSet(map, CompanyKey(Head(companies).name, Head(companies).domain),
                          Head(companies)))

\* the rows loop of handlePreview from row k on: rows without name or
\* domain are left out, a row whose key is in the lookup is an update
RECURSIVE ClassifyRows(_, _, _)
ClassifyRows(rows, k, lookup) ==
  IF k > Len(rows) THEN <<>>
  ELSE LET row == rows[k]
           name == Trim(row.name)
           domain == Trim(row.domain)
           existing == MapGet(lookup, CompanyKey(name, domain))
           customFields == <<[fieldId |-> 1, value |-> Trim(row.f1)],
                             [fieldId |-> 2, value |-> Trim(row.f2)]>>
       IN IF name = <<>> \/ domain = <<>> THEN ClassifyRows(rows, k + 1, lookup)
          ELSE <<[rowIndex |-> k - 1, name |-> name, domain |-> domain,
                  customFields |-> customFields, existingCompany |-> existing,
                  action |-> IF existing # NoCompany THEN "update" ELSE "create"]>>
               \o ClassifyRows(rows, k + 1, lookup)

\* handlePreview up to the first listCompanies request
PreviewStart ==
  /\ module = "company" /\ pc \in {"idle", "planned"}
  /\ pc' = "listCompanies"
  /\ cursor' = 0 /\ collected' = <<>> /\ pageFailed' = 0
  /\ UNCHANGED <<module, session, migrationLogs, csvCell, lastPlan,
                 batchReads, runs, pauses, listing, items, i, results,
                 progress, published,
                 sinkLog, faults, remote, copyVars, dedupeVars, csvVars>>

\* one listCompanies request of the pager loop; the loop stands outside of
\* any try, so a rejected call leaves the handler
ListCompaniesPage ==
  /\ module = "company" /\ pc = "listCompanies"
  /\ \E o \in CallOutcomes :
       /\ MayFault(o)
       /\ faults' = Fault(o)
       /\ CASE o = "ok" ->
                 /\ collected' = collected \o PageOf(listing, cursor)
                 /\ cursor' = NextCursor(listing, cursor)
                 /\ pc' = IF NextCursor(listing, cursor) # 0 THEN "listCompanies"
                          ELSE "classify"
                 /\ UNCHANGED pageFailed
            [] o = "fail" ->
                 /\ pageFailed' = cursor + 1
                 /\ pc' = "classify"
                 /\ UNCHANGED <<collected, cursor>>
            [] o = "throw" ->
                 /\ pageFailed' = cursor + 1
                 /\ pc' = "crashed"
                 /\ UNCHANGED <<collected, cursor>>
  /\ UNCHANGED <<module, session, migrationLogs, csvCell, lastPlan,
                 batchReads, runs, pauses, listing, items, i, results,
                 progress, published,
                 sinkLog, remote, copyVars, dedupeVars, csvVars>>

\* the rest of handlePreview: the lookup, the rows loop, the reads of the
\* current values of the companies to update (shown in the preview only),
\* and setCompaniesToImport
ClassifyCompanies ==
  /\ module = "company" /\ pc = "classify"
  /\ LET companies == ClassifyRows(csvRows, 1, BuildLookup(collected, <<>>))
         reads == \E k \in 1..Len(companies) : companies[k].action = "update"
     IN \E o \in CallOutcomes :
          /\ o # "ok" => reads
          /\ MayFault(o)
          /\ faults' = Fault(o)
          /\ IF o = "throw"
             THEN pc' = "crashed" /\ UNCHANGED companiesToImport
             ELSE pc' = "planned" /\ companiesToImport' = companies
  /\ UNCHANGED <<module, session, migrationLogs, csvCell, lastPlan,
                 batchReads, runs, pauses, listing, cursor, collected,
                 pageFailed, items, i,
                 results, progress, published, sinkLog, remote, copyVars,
                 dedupeVars, csvRows, companyId, fieldErrors, fieldIdx,
                 preserveExistingValues, failedRows>>

\* handleStartImport up to its loop
ImportStart ==
  /\ module = "company" /\ pc = "planned" /\ companiesToImport # <<>>
  /\ items' = companiesToImport
  /\ results' = <<>> /\ published' = <<>> /\ i' = 0
  /\ progress' = [current |-> 0, total |-> Len(companiesToImport)]
  /\ faults' = 0
  /\ pc' = "exec"
  /\ UNCHANGED <<module, session, migrationLogs, csvCell, lastPlan,
                 batchReads, runs, pauses, listing, cursor, collected,
                 pageFailed, sinkLog,
                 remote, copyVars, dedupeVars, csvVars>>

\* the id createCompany answers with for the company of a row
NewCompanyId(rowIndex) == 100 + rowIndex

\* the first half of a turn of the loop: createCompany for a create (no
\* try around it), the id of the existing company for an update
CreateCompanyStep ==
  /\ module = "company" /\ pc = "exec" /\ i < Len(items)
  /\ LET company == items[i + 1] IN
     IF company.action = "create"
     THEN \E o \in CallOutcomes :
            /\ MayFault(o)
            /\ faults' = Fault(o)
            /\ sinkLog' = Append(sinkLog,
                 [op |-> "createCompany", item |-> i + 1, target |-> 0,
                  field |-> 0, value |-> company.name, outcome |-> o,
                  held |-> FALSE])
            /\ CASE o = "ok" ->
                      /\ companyId' = NewCompanyId(company.rowIndex)
                      /\ fieldErrors' = <<>> /\ fieldIdx' = 0
                      /\ pc' = "fields"
                      /\ UNCHANGED <<results, progress, i>>
                 [] o = "fail" ->
                      /\ results' = Append(results,
                           [item |-> i + 1, rowIndex |-> company.rowIndex,
                            action |-> "create", success |-> FALSE,
                            error |-> ErrMsg, fieldErrors |-> <<>>])
                      /\ progress' = [current |-> i + 1, total |-> Len(items)]
                      /\ i' = i + 1
                      /\ UNCHANGED <<pc, companyId, fieldErrors, fieldIdx>>
                 [] o = "throw" ->
                      /\ pc' = "crashed"
                      /\ UNCHANGED <<results, progress, i, companyId,
                                     fieldErrors, fieldIdx>>
     ELSE /\ companyId' = company.existingCompany.id
          /\ fieldErrors' = <<>> /\ fieldIdx' = 0
          /\ pc' = "fields"
          /\ UNCHANGED <<results, progress, i, sinkLog, faults>>
  /\ UNCHANGED <<module, session, migrationLogs, csvCell, lastPlan,
                 batchReads, runs, pauses, listing, cursor, collected,
                 pageFailed, items,
                 published, remote, copyVars, dedupeVars, csvRows,
                 companiesToImport, preserveExistingValues, failedRows>>

\* one turn of the custom fields loop: an empty value is passed over, a
\* number field takes parseFloat of the value or a field error, and
\* setCompanyFieldValue (no try around it) is called
SetCompanyFieldStep ==
  /\ module = "company" /\ pc = "fields"
  /\ fieldIdx < Len(items[i + 1].customFields)
  /\ LET entry == items[i + 1].customFields[fieldIdx + 1]
         isNumber == CompanyFieldType(entry.fieldId) = "number"
     IN IF entry.value = <<>>
        THEN /\ fieldIdx' = fieldIdx + 1
             /\ UNCHANGED <<fieldErrors, sinkLog, faults, pc>>
        ELSE IF isNumber /\ ParseFloat(entry.value) = NaN
        THEN /\ fieldErrors' = Append(fieldErrors,
                  [fieldId |-> entry.fieldId, error |-> "Invalid number value"])
             /\ fieldIdx' = fieldIdx + 1
             /\ UNCHANGED <<sinkLog, faults, pc>>
        ELSE \E o \in CallOutcomes :
               /\ MayFault(o)
               /\ faults' = Fault(o)
               /\ sinkLog' = Append(sinkLog,
                    [op |-> "setCompanyFieldValue", item |-> i + 1,
                     target |-> companyId, field |-> entry.fieldId,
                     value |-> IF isNumber THEN ParseFloat(entry.value)
                               ELSE entry.value,
                     outcome |-> o, held |-> FALSE])
               /\ CASE o = "ok" ->
                         /\ fieldIdx' = fieldIdx + 1
                         /\ UNCHANGED <<fieldErrors, pc>>
                    [] o = "fail" ->
                         /\ fieldErrors' = Append(fieldErrors,
                              [fieldId |-> entry.fieldId, error |-> ErrMsg])
                         /\ fieldIdx' = fieldIdx + 1
                         /\ UNCHANGED pc
                    [] o = "throw" ->
                         /\ pc' = "crashed"
                         /\ UNCHANGED <<fieldErrors, fieldIdx>>
  /\ UNCHANGED <<module, session, migrationLogs, csvCell, lastPlan,
                 batchReads, runs, pauses, listing, cursor, collected,
                 pageFailed, items, i,
                 results, progress, published, remote, copyVars, dedupeVars,
                 csvRows, companiesToImport, companyId,
                 preserveExistingValues, failedRows>>

\* the second half of a turn of the loop: the result of the item
PushCompanyResult ==
  /\ module = "company" /\ pc = "fields"
  /\ fieldIdx = Len(items[i + 1].customFields)
  /\ results' = Append(results,
       [item |-> i + 1, rowIndex |-> items[i + 1].rowIndex,
        action |-> items[i + 1].action, success |-> (fieldErrors = <<>>),
        error |-> "", fieldErrors |-> fieldErrors])
  /\ progress' = [current |-> i + 1, total |-> Len(items)]
  /\ pauses' = Pause(PauseEvery, PauseMs, i + 1, Len(items))
  /\ i' = i + 1
  /\ pc' = "exec"
  /\ UNCHANGED <<module, session, migrationLogs, csvCell, lastPlan,
                 batchReads, runs, listing, cursor, collected, pageFailed,
                 items,
                 published, sinkLog, faults, remote, copyVars, dedupeVars,
                 csvVars>>

\* after the loop: setImportResults(results), setCurrentStep('results')
ImportFinish ==
  /\ module = "company" /\ pc = "exec" /\ i = Len(items)
  /\ published' = results
  /\ pc' = "done"
  /\ UNCHANGED <<module, session, migrationLogs, csvCell, lastPlan,
                 batchReads, runs, pauses, listing, cursor, collected,
                 pageFailed, items, i,
                 results, progress, sinkLog, faults, remote, copyVars,
                 dedupeVars, csvVars>>

\* ------------------------------------------------------------------------
\* Bulk update: handleStartUpdate
\* ------------------------------------------------------------------------
\* a row of the CSV: the UUID column and the one mapped value column (the
\* number field 2)
UpdateRow(uuid, value) == [uuid |-> uuid, value |-> value]

\* isBlankValue of a string: '', white space, '-' or "'-"
isBlankValue(value) ==
  Trim(value) \in {<<>>, <<"-">>, <<"'", "-">>}

\* String.prototype.replace(/%/g, '')
RemovePercent(s) == LET NotPercent(c) == c # "%" IN SelectSeq(s, NotPercent)

\* the value column's field
ValueField == 2

\* the rows the bulk update's preview covers: csvData.rows.slice(0, 100)
PreviewLimit == 100

\* an executor that goes through the previewed rows only
RowsToProcessPreviewed(rows, k) ==
  LET indexed == [j \in 1..Len(rows) |-> [rowIndex |-> j - 1, row |-> rows[j]]]
      kept(r) == /\ r.rowIndex >= k - 1 /\ r.rowIndex < PreviewLimit
                 /\ ~isBlankValue(r.row.uuid) /\ ~isBlankValue(r.row.value)
  IN SelectSeq(indexed, kept)

\* rowsToProcess: the rows from row k on with a UUID and a value that is
\* not blank, each with its place in the file
RowsToProcess(rows, k) ==
  LET indexed == [j \in 1..Len(rows) |-> [rowIndex |-> j - 1, row |-> rows[j]]]
      kept(r) == /\ r.rowIndex >= k - 1
                 /\ ~isBlankValue(r.row.uuid) /\ ~isBlankValue(r.row.value)
  IN SelectSeq(indexed, kept)

Empty == <<"(", "e", "m", "p", "t", "y", ")">>

\* the preview item of the row at place k: 'Missing feature UUID' when the
\* trimmed UUID is '' or '-', 'No values to update' when the value cell is
\* blank or no number, 'valid' otherwise
UpdatePreviewItem(row, k) ==
  LET featureId == Trim(row.uuid)
      numericValue == ParseFloat(RemovePercent(Trim(row.value)))
      updates == IF ~isBlankValue(row.value) /\ numericValue # NaN
                 THEN <<numericValue>> ELSE <<>>
  IN IF featureId = <<>> \/ featureId = <<"-">>
     THEN [rowIndex |-> k - 1, featureId |-> Empty, updates |-> <<>>,
           status |-> "error", error |-> "Missing feature UUID"]
     ELSE IF updates = <<>>
     THEN [rowIndex |-> k - 1, featureId |-> featureId, updates |-> <<>>,
           status |-> "error",
           error |-> "No values to update (all mapped columns are blank)"]
     ELSE [rowIndex |-> k - 1, featureId |-> featureId, updates |-> updates,
           status |-> "valid", error |-> ""]

\* the items of handleLoadPreview over the first PreviewLimit rows
UpdatePreview(rows) ==
  [k \in 1..(IF Len(rows) < PreviewLimit THEN Len(rows) ELSE PreviewLimit) |->
     UpdatePreviewItem(rows[k], k)]

\* handleLoadPreview of the bulk update: no remote call
LoadUpdatePreview ==
  /\ module = "bulk" /\ pc = "idle"
  /\ previewItems' = UpdatePreview(csvRows)
  /\ pc' = "planned"
  /\ UNCHANGED <<module, session, migrationLogs, csvCell, lastPlan,
                 batchReads, runs, pauses, listing, cursor, collected,
                 pageFailed, items, i,
                 results, progress, published, sinkLog, faults, remote,
                 validMappings, onlyEmptyTargets, allItems, dedupeVars,
                 csvVars>>

\* handleStartUpdate up to its loop
UpdateStart ==
  /\ module = "bulk" /\ pc = "planned"
  /\ items' = RowsToProcess(csvRows, 1)
  /\ results' = <<>> /\ published' = <<>> /\ i' = 0
  /\ progress' = [current |-> 0, total |-> Len(items')]
  /\ faults' = 0
  /\ pc' = "exec"
  /\ UNCHANGED <<module, session, migrationLogs, csvCell, lastPlan,
                 batchReads, runs, pauses, listing, cursor, collected,
                 pageFailed, sinkLog,
                 remote, copyVars, dedupeVars, csvVars>>

Cost(o) == IF o = "ok" THEN 0 ELSE 1

\* one turn of the loop: getFeature for the name (in a try), the read of
\* the current value under the preserve flag (in a try: a read that fails
\* or throws lets the update go on), and updateFeatureCustomFields (in a
\* try) unless the field was skipped or the value is no number
UpdateFeatureStep ==
  /\ module = "bulk" /\ pc = "exec" /\ i < Len(items)
  /\ LET rowIndex == items[i + 1].rowIndex
         featureId == Trim(items[i + 1].row.uuid)
         numericValue == ParseFloat(RemovePercent(Trim(items[i + 1].row.value)))
         isNumber == numericValue # NaN
         reads == isNumber /\ preserveExistingValues
     IN \E oName, oRead, oWrite \in CallOutcomes :
          LET shouldSkip == reads /\ oRead = "ok" /\ remote[featureId][ValueField] # 0
              writes == isNumber /\ ~shouldSkip
              result == [item |-> i + 1, rowIndex |-> rowIndex,
                         featureId |-> featureId,
                         featureName |-> IF oName = "ok" THEN "name" ELSE "uuid",
                         success |-> shouldSkip \/ oWrite = "ok",
                         error |-> IF shouldSkip \/ oWrite = "ok" THEN ""
                                   ELSE IF oWrite = "fail" THEN ErrMsg ELSE ThrowMsg,
                         allFieldsSkipped |-> shouldSkip]
          IN /\ ~reads => oRead = "ok"
             /\ ~writes => oWrite = "ok"
             /\ faults + Cost(oName) + Cost(oRead) + Cost(oWrite) <= FaultBudget
             /\ faults' = faults + Cost(oName) + Cost(oRead) + Cost(oWrite)
             /\ IF writes
                THEN /\ sinkLog' = Append(sinkLog,
                          [op |-> "updateFeatureCustomFields", item |-> i + 1,
                           target |-> featureId, field |-> ValueField,
                           value |-> numericValue, outcome |-> oWrite,
                           held |-> remote[featureId][ValueField] # 0])
                     /\ remote' = IF oWrite = "ok"
                                  THEN PutValue(remote, featureId, ValueField,
                                                numericValue)
                                  ELSE remote
                ELSE UNCHANGED <<sinkLog, remote>>
             /\ IF isNumber
                THEN /\ results' = Append(results, result)
                     /\ progress' = [current |-> i + 1, total |-> Len(items)]
                     /\ pauses' = Pause(PauseEvery, PauseMs, i + 1, Len(items))
                ELSE \* customFieldUpdates.length === 0: continue
                     UNCHANGED <<results, progress, pauses>>
  /\ i' = i + 1
  /\ UNCHANGED <<module, session, migrationLogs, csvCell, lastPlan,
                 batchReads, runs, pc, listing, cursor, collected, pageFailed,
                 items,
                 published, copyVars, dedupeVars, csvVars>>

\* after the loop: setUpdateResults(results), setCurrentStep('results')
UpdateFinish ==
  /\ module = "bulk" /\ pc = "exec" /\ i = Len(items)
  /\ published' = results
  /\ pc' = "done"
  /\ UNCHANGED <<module, session, migrationLogs, csvCell, lastPlan,
                 batchReads, runs, pauses, listing, cursor, collected,
                 pageFailed, items, i,
                 results, progress, sinkLog, faults, remote, copyVars,
                 dedupeVars, csvVars>>

\* ------------------------------------------------------------------------
\* Bulk update: the steps of the page and the calls of handleStartUpdate
\* ------------------------------------------------------------------------
\* pc holds currentStep here: "upload", "configure", "idle" (the mapping
\* step), "planned" (the preview), "exec" (updating), "done" (results).
\* The cards of the first three steps are rendered at every step; their
\* buttons set the step: Edit and Cancel to 'upload' from another step,
\* Continue and Edit to 'configure', Continue, Edit and Back to 'mapping'
EditStep ==
  /\ module = "bulk" /\ csvRows # <<>>
  /\ \E s \in {"upload", "configure", "idle"} :
       /\ CASE s = "upload" -> pc # "upload"
            [] s = "configure" -> pc # "configure"
            [] s = "idle" -> pc \notin {"idle", "upload"}
       /\ pc' = s
  /\ UNCHANGED <<module, session, migrationLogs, csvCell, lastPlan,
                 batchReads, runs, pauses, listing, cursor, collected,
                 pageFailed,
                 items, i, results, progress, published, sinkLog, faults,
                 remote, copyVars, dedupeVars, csvVars>>

\* handleStartUpdate up to its loop, called from the preview step whenever
\* rowsToProcessCount is not 0: the call has its own rowsToProcess and
\* results, and shares updateResults, updateProgress and the step
StartUpdateRun ==
  /\ module = "bulk" /\ pc = "planned"
  /\ RowsToProcess(csvRows, 1) # <<>>
  /\ Len(runs) < MaxRuns
  /\ runs' = Append(runs, [rowsToProcess |-> RowsToProcess(csvRows, 1),
                           i |-> 0, results |-> <<>>, active |-> TRUE])
  /\ published' = <<>>
  /\ progress' = [current |-> 0, total |-> Len(RowsToProcess(csvRows, 1))]
  /\ pc' = "exec"
  /\ UNCHANGED <<module, session, migrationLogs, csvCell, lastPlan,
                 batchReads, pauses, listing, cursor, collected, pageFailed,
                 items, i, results, sinkLog, faults, remote, copyVars,
                 dedupeVars, csvVars>>

\* one turn of the loop of the call r, for a row whose value is a number,
\* with the preserve flag off and calls that succeed
UpdateRunStep ==
  /\ module = "bulk"
  /\ \E r \in 1..Len(runs) :
       LET run == runs[r]
           k == run.i + 1
           featureId == Trim(run.rowsToProcess[k].row.uuid)
           numericValue ==
             ParseFloat(RemovePercent(Trim(run.rowsToProcess[k].row.value)))
       IN /\ run.active /\ run.i < Len(run.rowsToProcess)
          /\ sinkLog' = Append(sinkLog,
               [op |-> "updateFeatureCustomFields", item |-> k,
                target |-> featureId, field |-> ValueField,
                value |-> numericValue, outcome |-> "ok",
                held |-> remote[featureId][ValueField] # 0, run |-> r])
          /\ remote' = PutValue(remote, featureId, ValueField, numericValue)
          /\ runs' = [runs EXCEPT ![r] =
               [@ EXCEPT !.i = k,
                         !.results = Append(@,
                           [item |-> k,
                            rowIndex |-> run.rowsToProcess[k].rowIndex,
                            featureId |-> featureId, featureName |-> "name",
                            success |-> TRUE, error |-> "",
                            allFieldsSkipped |-> FALSE])]]
          /\ progress' = [current |-> k, total |-> Len(run.rowsToProcess)]
  /\ UNCHANGED <<module, session, migrationLogs, csvCell, lastPlan,
                 batchReads, pauses, pc, listing, cursor, collected,
                 pageFailed,
                 items, i, results, published, faults, copyVars, dedupeVars,
                 csvVars>>

\* after the loop of the call r: setUpdateResults(results),
\* setCurrentStep('results')
UpdateRunFinish ==
  /\ module = "bulk"
  /\ \E r \in 1..Len(runs) :
       /\ runs[r].active /\ runs[r].i = Len(runs[r].rowsToProcess)
       /\ published' = runs[r].results
       /\ runs' = [runs EXCEPT ![r] = [@ EXCEPT !.active = FALSE]]
  /\ pc' = "done"
  /\ UNCHANGED <<module, session, migrationLogs, csvCell, lastPlan,
                 batchReads, pauses, listing, cursor, collected, pageFailed,
                 items, i, results, progress, sinkLog, faults, remote,
                 copyVars, dedupeVars, csvVars>>

\* ------------------------------------------------------------------------
\* Entity import: handleStartImport
\* ------------------------------------------------------------------------
\* a row of the CSV: the name column, the column mapped to the owner and
\* the column mapped to the number field 'estimate'
EntityRow(name, owner, estimate) ==
  [name |-> name, owner |-> owner, estimate |-> estimate]

\* the mapped columns in the order of columnMappings, with the type of the
\* field each is mapped to
EntityMappings ==
  << [mappedTo |-> "name", type |-> "text"],
     [mappedTo |-> "owner", type |-> "member"],
     [mappedTo |-> "estimate", type |-> "number"] >>

\* the value the field loop stores for a cell that is neither undefined
\* nor '': { email: value.trim() } for the owner, parseFloat(value) || 0
\* for a number field, the cell itself otherwise
EntityFieldValue(mapping, value) ==
  IF mapping.mappedTo = "owner" THEN Trim(value)
  ELSE IF mapping.type = "number"
       THEN (IF ParseFloat(value) = NaN THEN 0 ELSE ParseFloat(value))
       ELSE value

\* the fields object built from a row: one entry per mapped cell that is
\* not empty
RECURSIVE EntityFields(_, _)
EntityFields(row, k) ==
  IF k > Len(EntityMappings) THEN <<>>
  ELSE LET mapping == EntityMappings[k]
           value == row[mapping.mappedTo]
       IN IF value = <<>> THEN EntityFields(row, k + 1)
          ELSE <<[key |-> mapping.mappedTo,
                  value |-> EntityFieldValue(mapping, value)]>>
               \o EntityFields(row, k + 1)

\* fields.owner?.email: '' when no owner was set
OwnerEmail(fields) ==
  LET IsOwner(e) == e.key = "owner"
      owners == SelectSeq(fields, IsOwner)
  IN IF owners = <<>> THEN <<>> ELSE owners[1].value

\* { ...fields } with the owner deleted
WithoutOwner(fields) == LET NotOwner(e) == e.key # "owner" IN SelectSeq(fields, NotOwner)

\* String.prototype.includes
Includes(s, sub) ==
  \E k \in 1..(Len(s) - Len(sub) + 1) : SubSeq(s, k, k + Len(sub) - 1) = sub

\* the text of ErrMsg in lower case
ErrTextLower ==
  <<"p", "r", "o", "d", "u", "c", "t", "b", "o", "a", "r", "d", " ",
    "s", "e", "r", "v", "e", "r", " ", "e", "r", "r", "o", "r">>

\* the statuses with which the remote API rejects a request for its data:
\* the response's text then names what it rejects (the owner that is no
\* member of the workspace)
OwnerRejections == {400, 404, 422}

\* SAFE_ERROR_MAP[status] of a rejection
SafeError(status) ==
  CASE status = 400 -> "Invalid request parameters"
    [] status = 404 -> "Resource not found"
    [] status = 422 -> "Invalid data format"

\* sanitizeApiError(status, rawError).toLowerCase(): the text of the map,
\* whatever the response's text was
SanitizedLower(status, rawError) ==
  CASE status = 400 -> <<"i", "n", "v", "a", "l", "i", "d", " ", "r", "e", "q", "u", "e", "s", "t", " ", "p", "a", "r", "a", "m", "e", "t", "e", "r", "s">>
    [] status = 404 -> <<"r", "e", "s", "o", "u", "r", "c", "e", " ", "n", "o", "t", " ", "f", "o", "u", "n", "d">>
    [] status = 422 -> <<"i", "n", "v", "a", "l", "i", "d", " ", "d", "a", "t", "a", " ", "f", "o", "r", "m", "a", "t">>
    [] OTHER -> ErrTextLower

\* the text of a response that rejects the owner
OwnerNotFound == <<"o", "w", "n", "e", "r", " ", "n", "o", "t", " ", "f", "o", "u", "n", "d">>

\* the test of handleStartImport for an error about the owner
isOwnerError(errorLower) ==
  \/ Includes(errorLower, <<"o", "w", "n", "e", "r">>)
  \/ Includes(errorLower, <<"m", "e", "m", "b", "e", "r">>)
  \/ Includes(errorLower, <<"u", "s", "e", "r">>)
  \/ /\ Includes(errorLower, <<"e", "m", "a", "i", "l">>)
     /\ Includes(errorLower, <<"i", "n", "v", "a", "l", "i", "d">>)

\* handleStartImport up to its loop
ImportEntitiesStart ==
  /\ module = "entity" /\ pc = "planned"
  /\ items' = csvRows
  /\ results' = <<>> /\ published' = <<>> /\ i' = 0
  /\ progress' = [current |-> 0, total |-> Len(csvRows)]
  /\ faults' = 0
  /\ pc' = "exec"
  /\ UNCHANGED <<module, session, migrationLogs, csvCell, lastPlan,
                 batchReads, runs, pauses, listing, cursor, collected,
                 pageFailed, sinkLog,
                 remote, copyVars, dedupeVars, csvVars>>

EntityCall(k, fields, o) ==
  [op |-> "createEntity", item |-> k, target |-> 0, field |-> 0,
   value |-> fields, outcome |-> o, held |-> FALSE]

\* one turn of the loop: a row without name fails by itself; createEntity
\* in try/catch, called again without the owner after an error whose text,
\* as createEntity returns it, passes isOwnerError; a row with an owner may
\* be rejected by the remote API for its owner
CreateEntityStep ==
  /\ module = "entity" /\ pc = "exec" /\ i < Len(items)
  /\ LET name == items[i + 1].name
         fields == EntityFields(items[i + 1], 1)
         withoutOwner == WithoutOwner(fields)
     IN IF name = <<>>
        THEN /\ results' = Append(results,
                  [item |-> i + 1, rowIndex |-> i, success |-> FALSE,
                   error |-> "Name is required", ownerSkipped |-> FALSE])
             \* continue: past the pause
             /\ UNCHANGED <<sinkLog, faults, pauses>>
        ELSE \E o1 \in CallOutcomes \cup {"rejected"}, o2 \in CallOutcomes,
                status \in OwnerRejections :
               LET errorLower == IF o1 = "rejected"
                                 THEN SanitizedLower(status, OwnerNotFound)
                                 ELSE ErrTextLower
                   retries == /\ o1 \in {"fail", "rejected"}
                              /\ OwnerEmail(fields) # <<>>
                              /\ isOwnerError(errorLower)
                   o == IF retries THEN o2 ELSE o1
               IN /\ o1 = "rejected" => OwnerEmail(fields) # <<>>
                  /\ o1 # "rejected" => status = 400
                  /\ ~retries => o2 = "ok"
                  /\ faults + Cost(o1) + Cost(o2) <= FaultBudget
                  /\ faults' = faults + Cost(o1) + Cost(o2)
                  /\ sinkLog' = sinkLog \o <<EntityCall(i + 1, fields, o1)>>
                       \o (IF retries THEN <<EntityCall(i + 1, withoutOwner, o2)>>
                           ELSE <<>>)
                  /\ results' = Append(results,
                       [item |-> i + 1, rowIndex |-> i, success |-> (o = "ok"),
                        error |-> CASE o = "ok" -> ""
                                    [] o = "fail" -> ErrMsg
                                    [] o = "rejected" -> SafeError(status)
                                    [] o = "throw" -> ThrowMsg,
                        ownerSkipped |-> (retries /\ o2 = "ok")])
                  /\ pauses' = Pause(PauseEvery, PauseMs, i + 1, Len(items))
  /\ progress' = [current |-> i + 1, total |-> Len(items)]
  /\ i' = i + 1
  /\ UNCHANGED <<module, session, migrationLogs, csvCell, lastPlan,
                 batchReads, runs, pc, listing, cursor, collected, pageFailed,
                 items,
                 published, remote, copyVars, dedupeVars, csvVars>>

\* after the loop: setImportResults(results), then checkDuplicates (outside
\* of any try) when something was created, and the duplicates step when it
\* reports a name that exists more than once
ImportEntitiesFinish ==
  /\ module = "entity" /\ pc = "exec" /\ i = Len(items)
  /\ published' = results
  /\ \E o \in CallOutcomes, dup \in BOOLEAN :
       LET checks == \E k \in 1..Len(results) : results[k].success
       IN /\ ~checks => (o = "ok" /\ ~dup)
          /\ o # "ok" => ~dup
          /\ MayFault(o)
          /\ faults' = Fault(o)
          /\ pc' = IF o = "throw" THEN "crashed"
                   ELSE IF dup THEN "duplicates" ELSE "done"
  /\ UNCHANGED <<module, session, migrationLogs, csvCell, lastPlan,
                 batchReads, runs, pauses, listing, cursor, collected,
                 pageFailed, items, i,
                 results, progress, sinkLog, remote, copyVars, dedupeVars,
                 csvVars>>

\* ------------------------------------------------------------------------
\* Note import: handleStartImport
\* ------------------------------------------------------------------------
\* a row of the CSV: the one title column and the one note text column
NoteRow(title, text) == [title |-> title, text |-> text]

\* buildTitle: the trimmed title columns that are not empty, joined
buildTitle(row) == Trim(row.title)
\* buildNoteText: '<b>column</b><br>' and the value of each text column
buildNoteText(row) == <<"<b>Text</b><br>">> \o row.text

\* rowsToProcess from row k on: a title and a note text
RECURSIVE NoteRowsToProcess(_, _)
NoteRowsToProcess(rows, k) ==
  IF k > Len(rows) THEN <<>>
  ELSE IF Len(buildTitle(rows[k])) > 0 /\ Len(buildNoteText(rows[k])) > 0
       THEN <<[rowIndex |-> k - 1, row |-> rows[k]]>> \o NoteRowsToProcess(rows, k + 1)
       ELSE NoteRowsToProcess(rows, k + 1)

\* handleStartImport up to its loop
ImportNotesStart ==
  /\ module = "notes" /\ pc = "planned"
  /\ items' = NoteRowsToProcess(csvRows, 1)
  /\ results' = <<>> /\ published' = <<>> /\ failedRows' = <<>> /\ i' = 0
  /\ progress' = [current |-> 0, total |-> Len(items')]
  /\ faults' = 0
  /\ pc' = "exec"
  /\ UNCHANGED <<module, session, migrationLogs, csvCell, lastPlan,
                 batchReads, runs, pauses, listing, cursor, collected,
                 pageFailed, sinkLog,
                 remote, copyVars, dedupeVars, csvRows, companiesToImport,
                 companyId, fieldErrors, fieldIdx, preserveExistingValues>>

\* one turn of the loop: createNote in try/catch, one result pushed
CreateNoteStep ==
  /\ module = "notes" /\ pc = "exec" /\ i < Len(items)
  /\ \E o \in CallOutcomes :
       /\ MayFault(o)
       /\ faults' = Fault(o)
       /\ sinkLog' = Append(sinkLog,
            [op |-> "createNote", item |-> i + 1, target |-> 0, field |-> 0,
             value |-> [title |-> buildTitle(items[i + 1].row),
                        content |-> buildNoteText(items[i + 1].row)],
             outcome |-> o, held |-> FALSE])
       /\ results' = Append(results,
            [item |-> i + 1, rowIndex |-> items[i + 1].rowIndex,
             success |-> (o = "ok"),
             error |-> IF o = "ok" THEN ""
                       ELSE IF o = "fail" THEN ErrMsg ELSE ThrowMsg])
  /\ progress' = [current |-> i + 1, total |-> Len(items)]
  /\ pauses' = Pause(PauseEvery, PauseMs, i + 1, Len(items))
  /\ i' = i + 1
  /\ UNCHANGED <<module, session, migrationLogs, csvCell, lastPlan,
                 batchReads, runs, pc, listing, cursor, collected, pageFailed,
                 items,
                 published, remote, copyVars, dedupeVars, csvVars>>

\* the rows pushed to failed next to a failing result
FailedOf(rs) ==
  LET Failing(r) == ~r.success
      fs == SelectSeq(rs, Failing)
  IN [k \in 1..Len(fs) |-> [rowIndex |-> fs[k].rowIndex, error |-> fs[k].error]]

\* after the loop: setImportResults(results), setFailedRows(failed)
ImportNotesFinish ==
  /\ module = "notes" /\ pc = "exec" /\ i = Len(items)
  /\ published' = results
  /\ failedRows' = FailedOf(results)
  /\ pc' = "done"
  /\ UNCHANGED <<module, session, migrationLogs, csvCell, lastPlan,
                 batchReads, runs, pauses, listing, cursor, collected,
                 pageFailed, items, i,
                 results, progress, sinkLog, faults, remote, copyVars,
                 dedupeVars, csvRows, companiesToImport, companyId,
                 fieldErrors, fieldIdx, preserveExistingValues>>

\* ------------------------------------------------------------------------
\* Specifications
\* ------------------------------------------------------------------------
Blank ==
  /\ pc = "idle" /\ cursor = 0 /\ collected = <<>> /\ pageFailed = 0
  /\ notes = <<>> /\ duplicateGroups = <<>> /\ items = <<>> /\ i = 0
  /\ results = <<>> /\ progress = [current |-> 0, total |-> 0]
  /\ published = <<>> /\ sinkLog = <<>> /\ faults = 0
  /\ allItems = <<>> /\ previewItems = <<>>
  /\ companiesToImport = <<>> /\ companyId = 0 /\ fieldErrors = <<>>
  /\ fieldIdx = 0 /\ failedRows = <<>> /\ pauses = <<>> /\ runs = <<>>
  /\ batchReads = <<>> /\ lastPlan = <<>> /\ csvCell = <<>>
  /\ migrationLogs = <<>> /\ session = <<>>

NoRemote == [e \in {} |-> 0]

\* the duplicate-notes module over every short listing of pool notes
InitDedupe ==
  /\ module = "dedupe"
  /\ listing \in SeqsUpTo(NotePool, MaxNotes)
  /\ remote = NoRemote /\ validMappings = <<>> /\ onlyEmptyTargets = FALSE
  /\ csvRows = <<>> /\ preserveExistingValues = FALSE
  /\ Blank

NextDedupe ==
  \/ LoadNotesStart
  \/ ListNotesPage
  \/ LoadCompaniesAndGroup
  \/ DeleteStart
  \/ DeleteNoteStep
  \/ DeleteFinish

SpecDedupe == InitDedupe /\ [][NextDedupe]_vars

\* the field-copy module over every remote state of a few features
InitCopy ==
  /\ module = "copy"
  /\ \E n \in 0..MaxFeatures :
       /\ listing = [j \in 1..n |-> j]
       /\ validMappings \in MappingChoices
       /\ remote \in RemoteChoices(n, validMappings)
  /\ onlyEmptyTargets \in BOOLEAN
  /\ csvRows = <<>> /\ preserveExistingValues = FALSE
  /\ Blank

NextCopy ==
  \/ LoadPreviewStart
  \/ ListFeaturesPage
  \/ ReadAndClassify
  \/ ExecuteStart
  \/ SetValueStep
  \/ ExecuteFinish

SpecCopy == InitCopy /\ [][NextCopy]_vars

\* the two modules whose plan is built from remote listings, loaded and
\* loaded again
InitPlans == InitDedupe \/ InitCopy

NextPlans == NextDedupe \/ NextCopy

SpecPlans == InitPlans /\ [][NextPlans]_vars

\* ------------------------------------------------------------------------
\* Note import: the CSV text of a value (escapeCSV) and the parser of a
\* line (parseCSVLine)
\* ------------------------------------------------------------------------
Quote == "\""

\* value.replace(/"/g, '""')
RECURSIVE DoubleQuotes(_)
DoubleQuotes(value) ==
  IF value = <<>> THEN <<>>
  ELSE (IF Head(value) = Quote THEN <<Quote, Quote>> ELSE <<Head(value)>>)
         \o DoubleQuotes(Tail(value))

escapeCSV(value) ==
  IF Includes(value, <<",">>) \/ Includes(value, <<Quote>>) \/ Includes(value, <<"\n">>)
  THEN <<Quote>> \o DoubleQuotes(value) \o <<Quote>>
  ELSE value

\* the loop of parseCSVLine from the character at k, and the push after it
RECURSIVE ParseFrom(_, _, _, _, _)
ParseFrom(line, k, current, inQuotes, result) ==
  IF k > Len(line) THEN Append(result, Trim(current))
  ELSE LET char == line[k]
           nextIsQuote == k < Len(line) /\ line[k + 1] = Quote
       IN IF inQuotes
          THEN IF char = Quote /\ nextIsQuote
               THEN ParseFrom(line, k + 2, Append(current, Quote), TRUE, result)
               ELSE IF char = Quote
               THEN ParseFrom(line, k + 1, current, FALSE, result)
               ELSE ParseFrom(line, k + 1, Append(current, char), TRUE, result)
          ELSE IF char = Quote
               THEN ParseFrom(line, k + 1, current, TRUE, result)
               ELSE IF char = ","
               THEN ParseFrom(line, k + 1, <<>>, FALSE,
                              Append(result, Trim(current)))
               ELSE ParseFrom(line, k + 1, Append(current, char), FALSE, result)

parseCSVLine(line) == ParseFrom(line, 1, <<>>, FALSE, <<>>)

\* the characters of the values that are escaped and parsed
MaxChars == 3
CsvChars == {",", Quote, " ", "\n", "a"}

\* He said, "hi"
HeSaidHi == <<"H", "e", " ", "s", "a", "i", "d", ",", " ", Quote, "h", "i", Quote>>

CsvValues == SeqsUpTo(CsvChars, MaxChars) \cup {HeSaidHi}

\* a value of the report is written as CSV text
EscapeCell ==
  /\ pc = "cell"
  /\ csvCell' = [csvCell EXCEPT !.line = escapeCSV(csvCell.value)]
  /\ pc' = "escaped"
  /\ UNCHANGED <<remote, copyVars, csvVars, dedupeVars>>
  /\ UNCHANGED <<module, session, migrationLogs, lastPlan, batchReads, runs,
                 pauses, listing, cursor, collected,
                 pageFailed, items, i, results, progress, published, sinkLog, faults>>

\* the text is read back as a line of an uploaded file
ParseCell ==
  /\ pc = "escaped"
  /\ csvCell' = [csvCell EXCEPT !.result = parseCSVLine(csvCell.line)]
  /\ pc' = "parsed"
  /\ UNCHANGED <<remote, copyVars, csvVars, dedupeVars>>
  /\ UNCHANGED <<module, session, migrationLogs, lastPlan, batchReads, runs,
                 pauses, listing, cursor, collected,
                 pageFailed, items, i, results, progress, published, sinkLog, faults>>

InitCsv ==
  /\ module = "note" /\ pc = "cell"
  /\ \E value \in CsvValues :
       csvCell = [value |-> value, line |-> <<>>, result |-> <<>>]
  /\ listing = <<>> /\ remote = NoRemote /\ collected = <<>>
  /\ cursor = 0 /\ pageFailed = 0
  /\ validMappings = <<>> /\ onlyEmptyTargets = FALSE
  /\ allItems = <<>> /\ previewItems = <<>>
  /\ notes = <<>> /\ duplicateGroups = <<>> /\ items = <<>> /\ i = 0
  /\ results = <<>> /\ progress = [current |-> 0, total |-> 0]
  /\ published = <<>> /\ sinkLog = <<>> /\ faults = 0
  /\ csvRows = <<>> /\ companiesToImport = <<>> /\ companyId = 0
  /\ fieldErrors = <<>> /\ fieldIdx = 0 /\ preserveExistingValues = FALSE
  /\ failedRows = <<>> /\ pauses = <<>> /\ runs = <<>> /\ batchReads = <<>>
  /\ lastPlan = <<>> /\ migrationLogs = <<>> /\ session = <<>>

NextCsv ==
  \/ EscapeCell
  \/ ParseCell

SpecCsv == InitCsv /\ [][NextCsv]_vars

\* the companies a remote listing is drawn from: two that differ in case
\* only, one without domain
CompanyPool ==
  { Company(1, <<"A", "b">>, <<"x">>),
    Company(2, <<"a", "b">>, <<"X">>),
    Company(3, <<"c">>, <<>>) }

\* the rows a company CSV is drawn from
CompanyRowPool ==
  { CsvRow(<<" ", "A", "B", " ">>, <<"x">>, <<"v">>, <<"5">>),
    CsvRow(<<"c">>, <<"y">>, <<>>, <<"n">>),
    CsvRow(<<"c">>, <<" ">>, <<"v">>, <<>>),
    CsvRow(<<"A", "b">>, <<"x">>, <<>>, <<>>) }

\* the listings without a company listed twice
ListingsUpTo(S, n) ==
  {l \in SeqsUpTo(S, n) : \A j, k \in 1..Len(l) : j # k => l[j] # l[k]}

\* the company import over every short listing and every short CSV
InitCompany ==
  /\ module = "company"
  /\ listing \in ListingsUpTo(CompanyPool, MaxCompanies)
  /\ csvRows \in SeqsUpTo(CompanyRowPool, MaxRows)
  /\ remote = NoRemote /\ validMappings = <<>> /\ onlyEmptyTargets = FALSE
  /\ preserveExistingValues = FALSE
  /\ Blank

NextCompany ==
  \/ PreviewStart
  \/ ListCompaniesPage
  \/ ClassifyCompanies
  \/ ImportStart
  \/ CreateCompanyStep
  \/ SetCompanyFieldStep
  \/ PushCompanyResult
  \/ ImportFinish

SpecCompany == InitCompany /\ [][NextCompany]_vars

\* the features of a bulk update: one holds a value in the value field
BulkRemote ==
  [u \in {<<"f", "1">>, <<"f", "2">>} |->
     [fieldId \in 1..4 |-> IF u = <<"f", "1">> /\ fieldId = ValueField THEN 9 ELSE 0]]

\* the j-th record of a list: drawn in turn from rows
Cycle(rows, j) == rows[((j - 1) % Len(rows)) + 1]

\* the length of a list longer than the preview, by one turn of the rows
LongList == PreviewLimit + 5

\* the rows of an uploaded file of the bulk update
BulkRowPool ==
  {UpdateRow(u, v) : u \in {<<"f", "1">>, <<" ", "f", "2">>, <<"-">>,
                            <<"'", "-">>, <<" ">>},
                     v \in {<<"5">>, <<"n">>, <<"-">>}}

BulkRows(mixed) ==
  IF mixed
  THEN << UpdateRow(<<"f", "2">>, <<"5">>),
          UpdateRow(<<" ", "f", "1">>, <<"6", "%">>),
          UpdateRow(<<"f", "2">>, <<"n">>),
          UpdateRow(<<"-">>, <<"5">>),
          UpdateRow(<<"f", "1">>, <<"-">>) >>
  ELSE << UpdateRow(<<"f", "2">>, <<"5">>) >>

\* the bulk update from the mapped file on: every short file of pool rows,
\* and a file longer than the preview
InitBulk ==
  /\ Blank /\ module = "bulk"
  /\ listing = <<>> /\ remote = BulkRemote
  /\ validMappings = <<>> /\ onlyEmptyTargets = FALSE
  /\ preserveExistingValues \in BOOLEAN
  /\ \/ csvRows \in SeqsUpTo(BulkRowPool, MaxRows)
     \/ \E mixed \in BOOLEAN :
          csvRows = [j \in 1..LongList |-> Cycle(BulkRows(mixed), j)]

NextBulk ==
  \/ LoadUpdatePreview
  \/ UpdateStart
  \/ UpdateFeatureStep
  \/ UpdateFinish

SpecBulk == InitBulk /\ [][NextBulk]_vars

\* a session of the bulk update at the mapping step of a file of rows
\* with a UUID and a number
RunRowPool ==
  {UpdateRow(<<"f", "1">>, <<"5">>), UpdateRow(<<"f", "2">>, <<"6", "%">>)}

InitRuns ==
  /\ Blank /\ module = "bulk"
  /\ listing = <<>> /\ remote = BulkRemote
  /\ validMappings = <<>> /\ onlyEmptyTargets = FALSE
  /\ preserveExistingValues = FALSE
  /\ csvRows \in SeqsUpTo(RunRowPool, MaxRows) /\ csvRows # <<>>

NextRuns ==
  \/ EditStep
  \/ LoadUpdatePreview
  \/ StartUpdateRun
  \/ UpdateRunStep
  \/ UpdateRunFinish

SpecRuns == InitRuns /\ [][NextRuns]_vars

\* the lengths of the lists the executors are started on
ExecLengths == (0..MaxRows) \cup {MaxItems, MaxItems + 1}

\* duplicate notes after a load of n + 1 notes with one content and title
ExecNotes(n) ==
  [j \in 1..(n + 1) |->
     Note(j, <<"x">>, <<"t">>, IF j % 2 = 1 THEN <<"c1">> ELSE <<>>, j)]

\* the shapes of the features of a field copy: every feature to update, or
\* features to update and to skip in turn
ExecShapes(mixed) ==
  IF mixed THEN <<(<<7, 0>>), (<<0, 0>>), (<<7, 9>>)>> ELSE <<(<<7, 0>>)>>

ExecRemote(n, mixed) ==
  [f \in 1..n |-> [fieldId \in 1..4 |->
     IF fieldId = 1 THEN Cycle(ExecShapes(mixed), f)[1]
     ELSE IF fieldId = 2 THEN Cycle(ExecShapes(mixed), f)[2] ELSE 0]]

CompanyRows(mixed) ==
  IF mixed
  THEN << CsvRow(<<"c">>, <<"y">>, <<"v">>, <<"5">>),
          CsvRow(<<" ", "A", "B", " ">>, <<"x">>, <<"-">>, <<" ">>),
          CsvRow(<<"c">>, <<"y">>, <<>>, <<"n">>),
          CsvRow(<<"c">>, <<" ">>, <<"v">>, <<>>) >>
  ELSE << CsvRow(<<"c">>, <<"y">>, <<"v">>, <<"5">>) >>

EntityRows(mixed) ==
  IF mixed
  THEN << EntityRow(<<"n">>, <<>>, <<"5">>),
          EntityRow(<<"n">>, <<"o", "@", "x">>, <<"n">>),
          EntityRow(<<>>, <<>>, <<>>),
          EntityRow(<<"n">>, <<>>, <<"-">>) >>
  ELSE << EntityRow(<<"n">>, <<>>, <<"5">>) >>

NoteRows(mixed) ==
  IF mixed
  THEN << NoteRow(<<"t">>, <<"x">>), NoteRow(<<" ">>, <<"x">>),
          NoteRow(<<"t">>, <<>>) >>
  ELSE << NoteRow(<<"t">>, <<"x">>) >>

\* the field copy with its features loaded, before the reads of its rules
InitReads ==
  /\ module = "copy"
  /\ \E n \in ExecLengths \ {0}, mixed \in BOOLEAN :
       /\ listing = [j \in 1..n |-> j]
       /\ remote = ExecRemote(n, mixed)
  /\ collected = listing /\ pc = "readValues"
  /\ cursor = 0 /\ pageFailed = 0
  /\ validMappings \in {<<Mapping(1, 2)>>, <<Mapping(1, 2), Mapping(2, 3)>>}
  /\ onlyEmptyTargets \in BOOLEAN
  /\ allItems = <<>> /\ previewItems = <<>>
  /\ notes = <<>> /\ duplicateGroups = <<>> /\ items = <<>> /\ i = 0
  /\ results = <<>> /\ progress = [current |-> 0, total |-> 0]
  /\ published = <<>> /\ sinkLog = <<>> /\ faults = 0
  /\ csvRows = <<>> /\ companiesToImport = <<>> /\ companyId = 0
  /\ fieldErrors = <<>> /\ fieldIdx = 0 /\ preserveExistingValues = FALSE
  /\ failedRows = <<>> /\ pauses = <<>> /\ runs = <<>> /\ batchReads = <<>>
  /\ lastPlan = <<>> /\ csvCell = <<>>
  /\ migrationLogs = <<>> /\ session = <<>>

NextReads ==
  \/ StartBatchReads
  \/ IssueBatch
  \/ ReadAnswered
  \/ ClassifyRead

SpecReads == InitReads /\ [][NextReads]_vars

\* the state of a module whose plan has been loaded without a failed call
\* and whose executor has not been started
PlannedModule ==
  /\ pc = "planned" /\ cursor = 0 /\ pageFailed = 0
  /\ items = <<>> /\ i = 0
  /\ results = <<>> /\ progress = [current |-> 0, total |-> 0]
  /\ published = <<>> /\ sinkLog = <<>> /\ faults = 0
  /\ companyId = 0 /\ fieldErrors = <<>> /\ fieldIdx = 0 /\ failedRows = <<>>
  /\ pauses = <<>> /\ runs = <<>> /\ batchReads = <<>> /\ lastPlan = <<>>
  /\ csvCell = <<>> /\ migrationLogs = <<>>

\* ... in a session the model does not follow
Planned == PlannedModule /\ session = <<>>

InitExecDedupe(n) ==
  /\ module = "dedupe" /\ n > 0
  /\ listing = ExecNotes(n) /\ collected = listing /\ notes = listing
  /\ duplicateGroups = findDuplicateGroups(listing)
  /\ remote = NoRemote /\ validMappings = <<>> /\ onlyEmptyTargets = FALSE
  /\ allItems = <<>> /\ previewItems = <<>>
  /\ csvRows = <<>> /\ companiesToImport = <<>>
  /\ preserveExistingValues = FALSE

InitExecCopy(n, mixed) ==
  /\ module = "copy" /\ n > 0
  /\ listing = [j \in 1..n |-> j] /\ collected = listing
  /\ remote = ExecRemote(n, mixed)
  /\ validMappings = <<Mapping(1, 2)>> /\ onlyEmptyTargets \in BOOLEAN
  /\ allItems = ClassifyMapping(collected, Mapping(1, 2), remote, {}, onlyEmptyTargets)
  /\ previewItems = allItems
  /\ notes = <<>> /\ duplicateGroups = <<>>
  /\ csvRows = <<>> /\ companiesToImport = <<>>
  /\ preserveExistingValues = FALSE

InitExecCompany(n, mixed) ==
  /\ module = "company"
  /\ listing = <<Company(1, <<"A", "b">>, <<"x">>)>> /\ collected = listing
  /\ csvRows = [j \in 1..n |-> Cycle(CompanyRows(mixed), j)]
  /\ companiesToImport = ClassifyRows(csvRows, 1, BuildLookup(collected, <<>>))
  /\ remote = NoRemote /\ validMappings = <<>> /\ onlyEmptyTargets = FALSE
  /\ allItems = <<>> /\ previewItems = <<>>
  /\ notes = <<>> /\ duplicateGroups = <<>>
  /\ preserveExistingValues = FALSE

InitExecCsv(m, rows, rem) ==
  /\ module = m
  /\ listing = <<>> /\ collected = <<>>
  /\ csvRows = rows
  /\ remote = rem
  /\ companiesToImport = <<>>
  /\ validMappings = <<>> /\ onlyEmptyTargets = FALSE
  /\ allItems = <<>>
  /\ previewItems = IF m = "bulk" THEN UpdatePreview(rows) ELSE <<>>
  /\ notes = <<>> /\ duplicateGroups = <<>>

\* the six executors, each started on the plan of a clean load; the field
\* copy, the bulk update and the entity import also on a list longer than
\* the preview
InitExec ==
  /\ Planned
  /\ \E n \in ExecLengths \cup {LongList}, mixed \in BOOLEAN :
       \/ n \in ExecLengths /\ InitExecDedupe(n)
       \/ InitExecCopy(n, mixed)
       \/ n \in ExecLengths /\ InitExecCompany(n, mixed)
       \/ /\ InitExecCsv("bulk", [j \in 1..n |-> Cycle(BulkRows(mixed), j)], BulkRemote)
          /\ preserveExistingValues \in BOOLEAN
       \/ /\ InitExecCsv("entity", [j \in 1..n |-> Cycle(EntityRows(mixed), j)], NoRemote)
          /\ preserveExistingValues = FALSE
       \/ /\ n \in ExecLengths
          /\ InitExecCsv("notes", [j \in 1..n |-> Cycle(NoteRows(mixed), j)], NoRemote)
          /\ preserveExistingValues = FALSE

NextExec ==
  \/ DeleteStart \/ DeleteNoteStep \/ DeleteFinish
  \/ ExecuteStart \/ SetValueStep \/ ExecuteFinish
  \/ ImportStart \/ CreateCompanyStep \/ SetCompanyFieldStep
  \/ PushCompanyResult \/ ImportFinish
  \/ UpdateStart \/ UpdateFeatureStep \/ UpdateFinish
  \/ ImportEntitiesStart \/ CreateEntityStep \/ ImportEntitiesFinish
  \/ ImportNotesStart \/ CreateNoteStep \/ ImportNotesFinish

SpecExec == InitExec /\ [][NextExec]_vars

\* the executors with every remote call answered in the end: a handler that
\* can take its next step takes it
SpecExecFair == SpecExec /\ WF_vars(NextExec)

\* ------------------------------------------------------------------------
\* The session of the field-copy module: the API token, handleDisconnect and
\* useInactivityTimeout.  Date.now() is the clock of the model; a timer that
\* is due fires before the clock moves on.
\* ------------------------------------------------------------------------
DEFAULT_WARNING_MS == 25 * 60 * 1000
DEFAULT_TIMEOUT_MS == 30 * 60 * 1000

\* the step of the clock, and the last instant the model follows
TickMs == 5 * 60 * 1000
MaxTicks == 12

\* a timer ref that holds no timer
NoTimer == 0

\* clearAllTimers
clearAllTimers(s) ==
  [s EXCEPT !.warningTimeoutRef = NoTimer, !.finalTimeoutRef = NoTimer,
            !.countdownIntervalRef = FALSE]

\* startTimers, called while the hook is enabled
startTimers(s) ==
  [clearAllTimers(s) EXCEPT
     !.lastActivityRef = s.now,
     !.warningTimeoutRef = s.now + DEFAULT_WARNING_MS,
     !.finalTimeoutRef = s.now + DEFAULT_TIMEOUT_MS]

\* the session after handleConnect has succeeded and the effects have run;
\* lastActivity is the instant of the last connection, dismissal or user
\* event, lastCounted that of the last one while no warning was showing
Connected ==
  startTimers([apiToken |-> "token", connectionStatus |-> "connected",
               now |-> 0, lastActivityRef |-> 0, showWarning |-> FALSE,
               warningTimeoutRef |-> NoTimer, finalTimeoutRef |-> NoTimer,
               countdownIntervalRef |-> FALSE,
               lastActivity |-> 0, lastCounted |-> 0,
               clearedBy |-> "", clearedAt |-> 0])

\* handleDisconnect, and the effects of the hook once it is disabled
Disconnected(s, by) ==
  [clearAllTimers(s) EXCEPT
     !.apiToken = "", !.connectionStatus = "disconnected",
     !.showWarning = FALSE, !.clearedBy = by, !.clearedAt = s.now]

WarningDue ==
  session.warningTimeoutRef # NoTimer /\ session.now >= session.warningTimeoutRef

FinalDue ==
  session.finalTimeoutRef # NoTimer /\ session.now >= session.finalTimeoutRef

\* remaining <= 0 in the countdown interval
CountdownDue ==
  /\ session.countdownIntervalRef
  /\ session.now - session.lastActivityRef >= DEFAULT_TIMEOUT_MS

\* the state handleDisconnect clears besides the session
ClearModule ==
  /\ validMappings' = <<>> /\ previewItems' = <<>>
  /\ collected' = <<>> /\ published' = <<>>
  /\ UNCHANGED <<module, migrationLogs, csvCell, lastPlan, batchReads, runs,
                 pauses, pc, listing, cursor, pageFailed, items, i, results,
                 progress, sinkLog, faults, remote, onlyEmptyTargets, allItems,
                 dedupeVars, csvVars>>

SessionOnly ==
  UNCHANGED <<module, migrationLogs, csvCell, lastPlan, batchReads, runs,
              pauses, pc, listing, cursor, collected, pageFailed, items, i,
              results, progress, published, sinkLog, faults, remote, copyVars,
              dedupeVars, csvVars>>

\* time passes
Tick ==
  /\ session.now < MaxTicks * TickMs
  /\ ~WarningDue /\ ~FinalDue /\ ~CountdownDue
  /\ session' = [session EXCEPT !.now = @ + TickMs]
  /\ SessionOnly

\* handleActivity, on a mouse, key, touch or scroll event
Activity ==
  /\ session.connectionStatus = "connected"
  /\ session' = [session EXCEPT
       !.lastActivityRef = IF session.showWarning THEN @ ELSE session.now,
       !.lastCounted = IF session.showWarning THEN @ ELSE session.now,
       !.lastActivity = session.now]
  /\ SessionOnly

\* the warning timer: the warning is shown and the countdown started; when
\* showWarning changes, the effect that depends on it is cleaned up and run
\* again, which clears every timer and starts them anew
WarningTimerFires ==
  /\ WarningDue
  /\ session' =
       IF session.showWarning
       THEN [session EXCEPT !.warningTimeoutRef = NoTimer,
                            !.countdownIntervalRef = TRUE]
       ELSE startTimers([session EXCEPT !.showWarning = TRUE])
  /\ SessionOnly

\* the final timer: onTimeout
FinalTimerFires ==
  /\ FinalDue
  /\ session' = Disconnected(session, "finalTimeout")
  /\ ClearModule

\* the countdown interval at remaining <= 0: onTimeout
CountdownFires ==
  /\ CountdownDue
  /\ session' = Disconnected(session, "countdown")
  /\ ClearModule

\* dismissWarning: resetTimer, and the effect run again
DismissWarning ==
  /\ session.connectionStatus = "connected" /\ session.showWarning
  /\ session' = [startTimers([session EXCEPT !.showWarning = FALSE])
                   EXCEPT !.lastActivity = session.now,
                          !.lastCounted = session.now]
  /\ SessionOnly

\* the Disconnect button
Disconnect ==
  /\ session.connectionStatus = "connected"
  /\ session' = Disconnected(session, "button")
  /\ ClearModule

\* a connected field-copy module with a plan, its timers running
InitSession ==
  /\ PlannedModule /\ session = Connected
  /\ \E n \in 1..MaxRows : InitExecCopy(n, FALSE)

NextSession ==
  \/ Tick
  \/ Activity
  \/ WarningTimerFires
  \/ FinalTimerFires
  \/ CountdownFires
  \/ DismissWarning
  \/ Disconnect
  \/ ExecuteStart \/ SetValueStep \/ ExecuteFinish

SpecSession == InitSession /\ [][NextSession]_vars

\* ------------------------------------------------------------------------
\* Properties of the duplicate grouping
\* ------------------------------------------------------------------------
Members(g) == {g.notes[j] : j \in 1..Len(g.notes)}
Deleted(g) == {g.deleteNotes[j] : j \in 1..Len(g.deleteNotes)}
Groups == {duplicateGroups[j] : j \in 1..Len(duplicateGroups)}

\* C4: in every duplicate group the kept note is an earliest-created member
\* with a company when some member has one, otherwise an earliest-created
\* member, and exactly the members with another id are marked for deletion;
\* the notes A, B, C of the example form one group that keeps A and deletes
\* B and C.
C4_KeepEarliestWithCompany ==
  /\ \A g \in Groups :
       LET withC == {n \in Members(g) : n.company # <<>>}
       IN /\ g.keepNote \in Members(g)
          /\ IF withC # {}
             THEN /\ g.keepNote \in withC
                  /\ \A n \in withC : g.keepNote.createdAt <= n.createdAt
             ELSE \A n \in Members(g) : g.keepNote.createdAt <= n.createdAt
          /\ Deleted(g) = {n \in Members(g) : n.id # g.keepNote.id}
  /\ (pc = "planned" /\ [j \in 1..Len(notes) |-> notes[j].id] = <<1, 2, 3>>)
       => /\ Len(duplicateGroups) = 1
          /\ {n.id : n \in Members(duplicateGroups[1])} = {1, 2, 3}
          /\ duplicateGroups[1].keepNote.id = 1
          /\ {n.id : n \in Deleted(duplicateGroups[1])} = {2, 3}

\* the example of C4 has been grouped: A (company, later) is kept over C
\* (no company, earliest)
C4_Witness ==
  /\ pc = "planned"
  /\ [j \in 1..Len(notes) |-> notes[j].id] = <<1, 2, 3>>
  /\ Len(duplicateGroups) = 1
  /\ duplicateGroups[1].keepNote.id = 1
  /\ duplicateGroups[1].notes[1].id = 3

\* C5: two notes share a duplicate group only if their trimmed contents are
\* equal and their trimmed titles are equal, so every note marked for
\* deletion has the content and title of the note kept in its group.
C5_GroupSharesContentAndTitle ==
  \A g \in Groups : \A n \in Members(g) :
    /\ Trim(n.content) = Trim(g.keepNote.content)
    /\ Trim(n.title) = Trim(g.keepNote.title)

\* ------------------------------------------------------------------------
\* Properties of the field copy
\* ------------------------------------------------------------------------
\* C3: with onlyEmptyTargets on, no setCustomFieldValue is sent for a
\* feature and field whose remote field holds a value at that moment, in
\* every run, those with failed reads of the current value included.
C3_PreserveNeverOverwrites ==
  (module = "copy" /\ onlyEmptyTargets)
    => \A k \in 1..Len(sinkLog) : ~sinkLog[k].held

\* the decision order of the classifier on the values it was handed
Decision(item, flag) ==
  IF item.sourceValue = 0 THEN "skipped_source_empty"
  ELSE IF flag /\ item.targetValue # 0 THEN "skipped_has_value"
  ELSE "will_update"

\* C6: the classifier yields exactly one item for every pair of a feature
\* and a rule (the items of rule m are the m-th block, in feature order);
\* its action is skipped_source_empty when the source value is absent,
\* otherwise skipped_has_value when onlyEmptyTargets is set and the target
\* value is present, otherwise will_update carrying the source value; with
\* every read answered the values are the remote ones, so a feature with
\* both values present is skipped_has_value under the flag and will_update
\* without it.
C6_OneItemPerPairInDecisionOrder ==
  module = "copy" =>
    LET n == Len(collected) IN
    /\ \A k \in 1..Len(allItems) :
         LET item == allItems[k]
             m == ((k - 1) \div n) + 1
             f == ((k - 1) % n) + 1
         IN /\ m <= Len(validMappings)
            /\ item.featureId = collected[f]
            /\ item.sourceFieldId = validMappings[m].sourceFieldId
            /\ item.targetFieldId = validMappings[m].targetFieldId
            /\ item.action = Decision(item, onlyEmptyTargets)
            /\ item.sourceValue \in {0, remote[item.featureId][item.sourceFieldId]}
    /\ pc = "planned" =>
         /\ previewItems = allItems
         /\ Len(previewItems) = n * Len(validMappings)
         /\ \A fi \in 1..n : \A m \in 1..Len(validMappings) :
              Cardinality({k \in 1..Len(previewItems) :
                 /\ previewItems[k].featureId = collected[fi]
                 /\ previewItems[k].sourceFieldId = validMappings[m].sourceFieldId
                 /\ previewItems[k].targetFieldId = validMappings[m].targetFieldId}) = 1
         /\ faults = 0 =>
              \A k \in 1..Len(previewItems) :
                LET item == previewItems[k]
                    src == remote[item.featureId][item.sourceFieldId]
                    tgt == remote[item.featureId][item.targetFieldId]
                IN /\ item.sourceValue = src /\ item.targetValue = tgt
                   /\ (src # 0 /\ tgt # 0) =>
                        item.action = IF onlyEmptyTargets THEN "skipped_has_value"
                                      ELSE "will_update"

\* a plan of two rules over two features, every read answered, in which a
\* feature with both values present is skipped under the flag next to an
\* item that will be updated and one with no source value
C6_Witness ==
  /\ module = "copy" /\ pc = "planned" /\ faults = 0 /\ onlyEmptyTargets
  /\ Len(validMappings) = 2 /\ Len(collected) = 2 /\ Len(previewItems) = 4
  /\ previewItems[1].sourceValue # 0 /\ previewItems[1].targetValue # 0
  /\ previewItems[1].action = "skipped_has_value"
  /\ previewItems[2].action = "will_update"

\* C9: when a page request after the first has failed, what the pager
\* hands to its caller marks the listing as partial: it differs from what a
\* complete walk over the same records hands over.
C9_PartialListingIsFlagged ==
  (module = "copy" /\ pc = "readValues" /\ pageFailed > 1)
    => PagerReturn(collected, TRUE) # PagerReturn(collected, FALSE)

\* the positions of the plan's will_update items
WillUpdateAt == {k \in 1..Len(previewItems) : previewItems[k].action = "will_update"}

\* the position of the j-th will_update item of the plan
NthWillUpdate(j) ==
  CHOOSE k \in WillUpdateAt : Cardinality({x \in WillUpdateAt : x < k}) = j - 1

\* C7: in a field-copy run the j-th setCustomFieldValue call writes the
\* source value of the j-th will_update item of the plan to that item's
\* feature and target field, there is one call for each will_update item
\* once the run is done, and so none for a skipped item.
C7_SinkOncePerWillUpdateInOrder ==
  (module = "copy" /\ pc \in {"exec", "done"}) =>
    /\ Len(sinkLog) = i
    /\ Len(sinkLog) <= Cardinality(WillUpdateAt)
    /\ pc = "done" => Len(sinkLog) = Cardinality(WillUpdateAt)
    /\ \A j \in 1..Len(sinkLog) :
         LET item == previewItems[NthWillUpdate(j)]
         IN /\ sinkLog[j].op = "setCustomFieldValue"
            /\ sinkLog[j].target = item.featureId
            /\ sinkLog[j].field = item.targetFieldId
            /\ sinkLog[j].value = item.sourceValue

\* a finished run over a plan that holds a skipped item between two
\* will_update items: two calls were made
C7_Witness ==
  /\ module = "copy" /\ pc = "done"
  /\ Len(previewItems) = 4 /\ Len(sinkLog) = 2
  /\ previewItems[1].action = "will_update"
  /\ previewItems[2].action \in {"skipped_has_value", "skipped_source_empty"}
  /\ previewItems[3].action = "will_update"

\* ------------------------------------------------------------------------
\* Properties of the company import
\* ------------------------------------------------------------------------
\* C8: when the first listing call of the record source has failed, the run
\* is over: no plan is built from the missing listing and no call reaches
\* the sink.
C8_FirstListingFailureIsFatal ==
  (module = "company" /\ pageFailed = 1)
    => /\ companiesToImport = <<>>
       /\ sinkLog = <<>>

\* the companies the listing walk of handlePreview fetched
Fetched == {collected[j] : j \in 1..Len(collected)}

\* the rows of the CSV that have a name and a domain, by position
RowsWithKey ==
  {k \in 1..Len(csvRows) : Trim(csvRows[k].name) # <<>> /\ Trim(csvRows[k].domain) # <<>>}

\* C10: the plan of the company import holds, in row order, one item for
\* each row with a name and a domain; the item is an update exactly when a
\* fetched company has the row's key (lowercased name, '|', lowercased
\* domain), the update then targets a fetched company with that key, and
\* every other item is a create; a listing walk without a failed page
\* fetches every company of the remote listing.
C10_UpdateIffKeyMatches ==
  (module = "company" /\ pc = "planned") =>
    /\ Len(companiesToImport) = Cardinality(RowsWithKey)
    /\ \A j \in 1..Len(companiesToImport) :
         LET item == companiesToImport[j]
             row == csvRows[item.rowIndex + 1]
             key == ToLowerCase(Trim(row.name)) \o <<"|">> \o ToLowerCase(Trim(row.domain))
             bearers == {c \in Fetched :
                           ToLowerCase(c.name) \o <<"|">> \o ToLowerCase(c.domain) = key}
         IN /\ item.rowIndex + 1 \in RowsWithKey
            /\ \A h \in 1..(j - 1) : companiesToImport[h].rowIndex < item.rowIndex
            /\ item.action \in {"update", "create"}
            /\ item.action = "update" <=> bearers # {}
            /\ item.action = "update" => item.existingCompany \in bearers
            /\ item.action = "create" => item.existingCompany = NoCompany
    /\ pageFailed = 0 => Fetched = {listing[j] : j \in 1..Len(listing)}

\* a plan with an update whose row differs from the company in case and
\* white space, two companies bearing the key, and a create
C10_Witness ==
  /\ module = "company" /\ pc = "planned" /\ pageFailed = 0
  /\ Len(collected) = 2 /\ Len(companiesToImport) = 2
  /\ companiesToImport[1].action = "update"
  /\ companiesToImport[1].name # companiesToImport[1].existingCompany.name
  /\ companiesToImport[1].existingCompany.id = 2
  /\ collected[1].id = 1
  /\ companiesToImport[2].action = "create"

\* ------------------------------------------------------------------------
\* Properties of the executor loops
\* ------------------------------------------------------------------------
\* the results recorded for item k of the executor's list
ResultsOf(k) == {j \in 1..Len(results) : results[j].item = k}

\* the items for which a call to the sink ended with outcome o
ItemsWith(o) ==
  {sinkLog[j].item : j \in {h \in 1..Len(sinkLog) : sinkLog[h].outcome = o}}

\* the messages a result carries
Messages(r) ==
  {r.error} \cup (IF "fieldErrors" \in DOMAIN r
                  THEN {r.fieldErrors[j].error : j \in 1..Len(r.fieldErrors)}
                  ELSE {})

\* item k of the list holds values the executor can send
WellFormed(k) ==
  CASE module = "bulk" ->
         ParseFloat(RemovePercent(Trim(items[k].row.value))) # NaN
    [] module = "entity" -> items[k].name # <<>>
    [] module = "company" ->
         \A j \in 1..Len(items[k].customFields) :
           LET entry == items[k].customFields[j]
           IN (CompanyFieldType(entry.fieldId) = "number" /\ entry.value # <<>>)
                => ParseFloat(entry.value) # NaN
    [] OTHER -> TRUE

Failures(rs) == Cardinality({j \in 1..Len(rs) : ~rs[j].success})
Successes(rs) == Cardinality({j \in 1..Len(rs) : rs[j].success})

\* the items for which a call to the sink returned a non-success response
SinkFailed == ItemsWith("fail") \cup ItemsWith("rejected")

\* C1: in each of the six executor loops, an item whose sink call returned
\* a non-success response is recorded as exactly one failure that carries
\* the response's message; such a response never ends the loop (the loop
\* can always go on, it is left only by a rejected call, and the run is
\* done only with every item gone through and the results published); and
\* a finished run over a list in which the sink failed for one item only
\* and every other item is well formed reports exactly 1 failure and a
\* success or skip for each other item (1 and 9 for a list of 10).
C1_FailureIsolatedPerItem ==
  /\ \A k \in SinkFailed :
       k <= i =>
         /\ Cardinality(ResultsOf(k)) = 1
         /\ \A j \in ResultsOf(k) :
              /\ ~results[j].success
              /\ k \in ItemsWith("fail") => ErrMsg \in Messages(results[j])
              /\ k \in ItemsWith("rejected") =>
                   \E status \in OwnerRejections :
                     SafeError(status) \in Messages(results[j])
  /\ pc \in {"exec", "fields"} => ENABLED NextExec
  /\ pc = "crashed" =>
       \/ sinkLog # <<>> /\ sinkLog[Len(sinkLog)].outcome = "throw"
       \/ module = "entity" /\ i = Len(items) /\ published = results
  /\ pc = "done" => (i = Len(items) /\ published = results)
  /\ ( /\ pc = "done"
       /\ Cardinality(SinkFailed) = 1 /\ ItemsWith("throw") = {}
       /\ \A k \in 1..Len(items) : k \notin SinkFailed => WellFormed(k) )
     => /\ Len(published) = Len(items)
        /\ Failures(published) = 1
        /\ Successes(published) = Len(items) - 1
        /\ \A k \in SinkFailed : \A j \in ResultsOf(k) : ~published[j].success

\* the company import has gone through a list of 10 companies of which
\* only the fifth met a failing sink call: 1 failure, 9 successes
C1_Witness ==
  /\ module = "company" /\ pc = "done" /\ Len(items) = 10
  /\ ItemsWith("fail") = {5} /\ ItemsWith("throw") = {}
  /\ Len(published) = 10
  /\ Failures(published) = 1 /\ ~published[5].success
  /\ Successes(published) = 9

\* C2: a sink call that rejects while item k is processed is recorded as the
\* failure of item k and the loop goes on to the next item, in each of the
\* six executors: the rejection never leaves the loop.
C2_ThrowCapturedAsItemFailure ==
  /\ \A k \in ItemsWith("throw") :
       /\ k <= i
       /\ Cardinality(ResultsOf(k)) = 1
       /\ \A j \in ResultsOf(k) : ~results[j].success
  /\ pc = "crashed" => (module = "entity" /\ i = Len(items))

\* ------------------------------------------------------------------------
\* Properties of the file-driven executors
\* ------------------------------------------------------------------------
\* a cell that is not blank and does not parse as a number
Unparsable(cell) ==
  ~isBlankValue(cell) /\ ParseFloat(RemovePercent(Trim(cell))) = NaN

\* the calls made to the sink for item k
CallsFor(k) == {j \in 1..Len(sinkLog) : sinkLog[j].item = k}

\* C11: in the bulk update, the company import and the entity import a
\* mapped numeric cell that does not parse as a number is never sent to
\* the sink, as 0 or as anything else; the result of the row records an
\* error for that field, and the other mapped fields of the row are sent.
C11_UnparsableNumberNeverSent ==
  /\ module = "entity" =>
       \A j \in 1..Len(sinkLog) :
         Unparsable(items[sinkLog[j].item].estimate) =>
           /\ \A h \in 1..Len(sinkLog[j].value) : sinkLog[j].value[h].key # "estimate"
           /\ \E h \in 1..Len(sinkLog[j].value) : sinkLog[j].value[h].key = "name"
  /\ module = "company" =>
       \A j \in 1..Len(results) :
         LET k == results[j].item
             cells == items[k].customFields
         IN (results[j].error = "" /\ Unparsable(cells[2].value)) =>
              /\ \A c \in CallsFor(k) : sinkLog[c].field # 2
              /\ \E e \in 1..Len(results[j].fieldErrors) :
                   results[j].fieldErrors[e].fieldId = 2
              /\ cells[1].value # <<>> => \E c \in CallsFor(k) : sinkLog[c].field = 1
  /\ module = "bulk" =>
       \A k \in 1..i :
         Unparsable(items[k].row.value) =>
           /\ CallsFor(k) = {}
           /\ \E j \in ResultsOf(k) : ~results[j].success

\* C12: no file-driven executor sends a mapped cell that is blank (empty
\* after trimming, '-' or "'-") to the sink: every field of every call
\* comes from a cell that is not blank.
C12_BlankCellNeverSent ==
  /\ module = "entity" =>
       \A j \in 1..Len(sinkLog) : \A h \in 1..Len(sinkLog[j].value) :
         ~isBlankValue(items[sinkLog[j].item][sinkLog[j].value[h].key])
  /\ module = "company" =>
       \A j \in 1..Len(sinkLog) :
         sinkLog[j].op = "setCompanyFieldValue" =>
           ~isBlankValue(items[sinkLog[j].item].customFields[sinkLog[j].field].value)
  /\ module = "bulk" =>
       \A j \in 1..Len(sinkLog) : ~isBlankValue(items[sinkLog[j].item].row.value)

\* ------------------------------------------------------------------------
\* Properties of the bulk update's plan and report
\* ------------------------------------------------------------------------
\* the rows of the file whose UUID cell is blank
BlankUuidRows == {k \in 1..Len(csvRows) : isBlankValue(csvRows[k].uuid)}

\* the row at place k stands in the plan as an error for its missing UUID
PlannedMissingUuid(k) ==
  \E j \in 1..Len(previewItems) :
    /\ previewItems[j].rowIndex = k - 1
    /\ previewItems[j].status = "error"
    /\ previewItems[j].error = "Missing feature UUID"

\* the row at place k stands in the report as a failure
ReportedFailed(k) ==
  \E j \in 1..Len(published) :
    published[j].rowIndex = k - 1 /\ ~published[j].success

\* the calls sent to the sink for the row at place k
SentForRow(k) ==
  {j \in 1..Len(sinkLog) : items[sinkLog[j].item].rowIndex = k - 1}

\* C13: in the bulk update every row of the file whose UUID cell is blank
\* stands in the plan as an error for its missing UUID once the plan is
\* built, stands in the report as a failure once the run has ended, and is
\* never sent to the sink
C13_BlankUuidIsPlannedAndReported ==
  module = "bulk" =>
    \A k \in BlankUuidRows :
      /\ pc \in {"planned", "exec", "done"} => PlannedMissingUuid(k)
      /\ pc = "done" => ReportedFailed(k)
      /\ SentForRow(k) = {}

\* the processed rows of the bulk update for which no field update was sent
NoUpdateSent == {k \in 1..i : \A j \in 1..Len(sinkLog) : sinkLog[j].item # k}

OwnerRejected ==
  {k \in 1..i : \E j \in CallsFor(k) :
     /\ sinkLog[j].outcome = "rejected"
     /\ OwnerEmail(sinkLog[j].value) # <<>>}

\* C15: in the entity import a row whose creation the remote API rejected
\* for its owner has exactly one further createEntity call, with the same
\* fields but the owner, and is reported as a success with ownerSkipped set
\* when that call succeeded
C15_OwnerRejectionIsRetriedWithoutOwner ==
  module = "entity" =>
    \A k \in OwnerRejected :
      /\ Cardinality(CallsFor(k)) = 2
      /\ \A j \in CallsFor(k) :
           sinkLog[j].outcome # "rejected" =>
             /\ OwnerEmail(sinkLog[j].value) = <<>>
             /\ sinkLog[j].outcome = "ok" =>
                  \A r \in ResultsOf(k) :
                    results[r].success /\ results[r].ownerSkipped

\* ------------------------------------------------------------------------
\* Properties of the runs over inputs longer than the preview
\* ------------------------------------------------------------------------
\* the rows of the file with a UUID and a value that are not blank
RowsToUpdate ==
  {k \in 1..Len(csvRows) :
     ~isBlankValue(csvRows[k].uuid) /\ ~isBlankValue(csvRows[k].value)}

\* the places in the executor's list of the row at place k of the file
ItemsOfRow(k) == {m \in 1..Len(items) : items[m].rowIndex = k - 1}

\* the calls that write the plan's item at place p
SentForPlanItem(p) ==
  {j \in 1..Len(sinkLog) :
     /\ sinkLog[j].target = previewItems[p].featureId
     /\ sinkLog[j].field = previewItems[p].targetFieldId
     /\ sinkLog[j].value = previewItems[p].sourceValue}

\* C16: a run goes through the whole input, previewed or not. In the bulk
\* update every row of the file with a UUID and a mapped value that are not
\* blank is in the executor's list once, in the order of the file, and has
\* been gone through when the run is done: a row whose value is a number
\* was then sent to the sink or reported as skipped. In the field copy
\* every will_update item of the plan, shown or not, has been sent to the
\* sink when the run is done.
C16_RunCoversWholeInput ==
  /\ (module = "bulk" /\ pc \in {"exec", "done"}) =>
       /\ \A k \in RowsToUpdate : Cardinality(ItemsOfRow(k)) = 1
       /\ \A m \in 1..Len(items) : m > 1 => items[m - 1].rowIndex < items[m].rowIndex
       /\ pc = "done" =>
            /\ i = Len(items)
            /\ \A k \in RowsToUpdate : \A m \in ItemsOfRow(k) :
                 ParseFloat(RemovePercent(Trim(csvRows[k].value))) # NaN =>
                   \/ CallsFor(m) # {}
                   \/ \E r \in ResultsOf(m) : published[r].allFieldsSkipped
  /\ (module = "copy" /\ pc = "done") =>
       \A p \in WillUpdateAt : SentForPlanItem(p) # {}

\* a finished field copy whose plan holds more will_update items than the
\* preview shows, the last of them written to the sink
C16_Witness ==
  /\ module = "copy" /\ pc = "done"
  /\ Len(ShownItems) < Len(previewItems)
  /\ \E p \in WillUpdateAt :
       /\ p > DisplayLimit /\ \A q \in WillUpdateAt : q <= p
       /\ \E j \in SentForPlanItem(p) : sinkLog[j].outcome = "ok"

\* ------------------------------------------------------------------------
\* Properties of the pauses and of the progress of a run
\* ------------------------------------------------------------------------
\* the pauses made after the turn that ended with m items gone through
PausesAfter(m) == {j \in 1..Len(pauses) : pauses[j].after = m}

\* C17: in every executor each 10th item gone through, while items
\* remain, is followed by a pause before the next turn of the loop, of
\* 1000 ms in the note deletion and of 200 ms elsewhere
C17_PauseAfterEachTenthItem ==
  pc \in {"exec", "fields", "done"} =>
    \A m \in 1..i :
      (m % 10 = 0 /\ m < Len(items)) =>
        \E j \in PausesAfter(m) :
          pauses[j].ms = IF module = "dedupe" THEN 1000 ELSE 200

\* C18: throughout a run the reported progress counts the items gone
\* through: current is the number of items processed so far (so it grows
\* by one with each item), total is the length of the executor's list,
\* current never exceeds total, and current equals total once the run is
\* done
C18_ProgressCountsItems ==
  pc \in {"exec", "fields", "done"} =>
    /\ progress.total = Len(items)
    /\ progress.current = i
    /\ progress.current <= progress.total
    /\ pc = "done" => progress.current = progress.total

\* ------------------------------------------------------------------------
\* Properties of the runs of one module
\* ------------------------------------------------------------------------
\* the calls of handleStartUpdate whose loop has not ended
ActiveRuns == {r \in 1..Len(runs) : runs[r].active}

\* C19: at most one run of the bulk update is active at any time: no
\* second call of handleStartUpdate starts while the loop of a call goes
\* on, the sink calls of two runs do not interleave, and the reported
\* progress is that of the one active run
C19_AtMostOneActiveRun ==
  module = "bulk" =>
    /\ Cardinality(ActiveRuns) <= 1
    /\ \A j, k \in 1..Len(sinkLog) :
         j < k => sinkLog[j].run <= sinkLog[k].run
    /\ \A r \in ActiveRuns : progress.current = runs[r].i

\* ------------------------------------------------------------------------
\* Properties of the reads of the field copy's plan
\* ------------------------------------------------------------------------
\* the read requests sent and not yet answered
InFlight ==
  IF batchReads = <<>> THEN 0 ELSE batchReads[1].pending + batchReads[2].pending

\* C20: while the plan of a field copy is built at most 10 requests that
\* read a field value are in flight
C20_AtMostTenReadsInFlight ==
  module = "copy" => InFlight <= 10

\* ------------------------------------------------------------------------
\* Properties of the deletion plan
\* ------------------------------------------------------------------------
\* the ids of the notes a delete call has removed
RemovedIds ==
  {sinkLog[j].target : j \in {h \in 1..Len(sinkLog) : sinkLog[h].outcome = "ok"}}

\* C28: the note kept by a duplicate group is in the delete list of no
\* group, its own included; and when a deletion run is done in which every
\* delete call succeeded, a note of every group (its kept note) has not
\* been removed
C28_KeptNoteIsNeverDeleted ==
  module = "dedupe" =>
    /\ \A g, h \in Groups : \A n \in Deleted(h) : n.id # g.keepNote.id
    /\ (pc = "done" /\ \A j \in 1..Len(sinkLog) : sinkLog[j].outcome = "ok") =>
         \A g \in Groups :
           /\ g.keepNote.id \notin RemovedIds
           /\ \E n \in Members(g) : n.id \notin RemovedIds

\* a deletion run without a failed call is done over a plan of two groups
\* that share a note: the shared note is removed, both kept notes are not
C28_Witness ==
  /\ module = "dedupe" /\ pc = "done"
  /\ \A j \in 1..Len(sinkLog) : sinkLog[j].outcome = "ok"
  /\ Len(duplicateGroups) = 2
  /\ \E n \in Deleted(duplicateGroups[1]) : n \in Deleted(duplicateGroups[2])
  /\ RemovedIds # {}
  /\ duplicateGroups[1].keepNote.id \notin RemovedIds
  /\ duplicateGroups[2].keepNote.id \notin RemovedIds

\* the ids of the notes of the plan's delete lists, group after group
PlannedDeletes ==
  LET flat == FlatDeleteNotes(duplicateGroups)
  IN [j \in 1..Len(flat) |-> flat[j].id]

\* C29: over the whole deletion plan each note id is scheduled for
\* deletion at most once, in one group's delete list and across the
\* groups, so a finished run has made one delete call and reported one
\* deletion for each distinct note to delete
C29_EachNoteDeletedAtMostOnce ==
  module = "dedupe" =>
    /\ \A j, k \in 1..Len(PlannedDeletes) :
         j # k => PlannedDeletes[j] # PlannedDeletes[k]
    /\ pc = "done" =>
         /\ Len(sinkLog) = Cardinality({PlannedDeletes[j] : j \in 1..Len(PlannedDeletes)})
         /\ Len(published) = Len(sinkLog)

\* ------------------------------------------------------------------------
\* Properties of the company import's plan
\* ------------------------------------------------------------------------
\* the places of the plan's rows classified create
CreateRows ==
  {j \in 1..Len(companiesToImport) : companiesToImport[j].action = "create"}

\* C30: in a company-import plan no two rows classified create have the
\* same natural key (name and domain in lower case), so no run creates two
\* companies with the same name and domain
C30_CreateRowsHaveDistinctKeys ==
  module = "company" =>
    \A j, k \in CreateRows :
      j # k =>
        CompanyKey(companiesToImport[j].name, companiesToImport[j].domain)
          # CompanyKey(companiesToImport[k].name, companiesToImport[k].domain)

\* the plan the module holds
CurrentPlan == IF module = "dedupe" THEN duplicateGroups ELSE previewItems

\* a load before this one classified the same records: both listed the
\* whole remote listing and read every value, and no load changes either
SameInputsAsBefore == pc = "planned" /\ lastPlan # <<>> /\ WholeLoad

\* the positions of a handler that builds a plan
PlanSteps == {"idle", "listNotes", "listCompanies", "listFeatures",
              "readValues", "planned"}

\* C22: a load that classifies the records the load before it classified
\* (for the field copy: with every field value read in both) ends with the
\* plan the load before it ended with, item by item in the same order, and
\* no step of a load issues a sink call or changes the remote state
C22_ReloadGivesTheSamePlan ==
  /\ [](SameInputsAsBefore => CurrentPlan = lastPlan[1])
  /\ [][pc' \in PlanSteps => sinkLog' = sinkLog /\ remote' = remote]_vars

C22_Witness ==
  /\ SameInputsAsBefore /\ module = "copy"
  /\ sinkLog = <<>>
  /\ \E a, b \in 1..Len(previewItems) :
       /\ previewItems[a].action = "will_update"
       /\ previewItems[b].action \in {"skipped_has_value", "skipped_source_empty"}

\* the value of the cell has a comma and a double quote in it
CommaAndQuote ==
  Includes(csvCell.value, <<",">>) /\ Includes(csvCell.value, <<Quote>>)

\* C23: a value with a comma and a double quote in it is written between
\* quotes with each of its quotes doubled, and the parser of a line reads
\* that text back as one field, the value itself
C23_EscapedValueParsesBack ==
  (pc = "parsed" /\ CommaAndQuote) =>
    /\ csvCell.line = <<Quote>> \o DoubleQuotes(csvCell.value) \o <<Quote>>
    /\ csvCell.result = <<csvCell.value>>

\* the results of the run that succeeded, and those that failed
Updated == {j \in 1..Len(results) : results[j].success}
Failed == {j \in 1..Len(results) : ~results[j].success}

\* a record of the table that holds the totals of the run
LogOfRun(log) ==
  /\ log.status \in {"completed", "failed"}
  /\ log.featuresProcessed = Len(results)
  /\ log.featuresUpdated = Cardinality(Updated)
  /\ log.featuresFailed = Cardinality(Failed)

\* C24: a field-copy run that executes has a record in the migrationLogs
\* table, and once the run has ended a record of the table is completed or
\* failed and holds the totals of the run
C24_RunWritesItsMigrationLog ==
  module = "copy" =>
    /\ pc = "exec" => migrationLogs # <<>>
    /\ pc = "done" => \E l \in 1..Len(migrationLogs) : LogOfRun(migrationLogs[l])

\* C25: a connected session never holds its token for longer than the
\* timeout after the last activity, dismissal or connection
C25_TokenClearedWithinTimeout ==
  (module = "copy" /\ session # <<>>) =>
    (session.apiToken # "" => session.now - session.lastActivity <= DEFAULT_TIMEOUT_MS)

\* C26: the warning appears only when the warning time has passed since the
\* most recent activity, and the timeout disconnects only when the timeout
\* has passed since the most recent activity registered before the warning
C26_ActivityResetsTheTimers ==
  [][/\ (~session.showWarning /\ session'.showWarning) =>
          session.now - session.lastActivity >= DEFAULT_WARNING_MS
     /\ (session'.clearedBy \in {"finalTimeout", "countdown"}
           /\ session.clearedBy = "") =>
          session.now - session.lastCounted >= DEFAULT_TIMEOUT_MS]_vars

\* C27: once the token has been cleared, no call is issued to the sink
C27_NoSinkCallAfterDisconnect ==
  [][session.apiToken = "" => sinkLog' = sinkLog]_vars

\* C21: a run that is executing reaches the results step, or the
\* duplicate-resolution step of the entity import, once its calls have been
\* answered
C21_RunReachesResults == (pc = "exec") ~> (pc \in {"done", "duplicates"})


============================================================================
